---- MODULE Spec2Model ----
(***************************************************************************)
(* truespec: the scan scheduler (ScanWithStats), the per-hash scan         *)
(* (processOne, in a worker child process or in-process), and the piece    *)
(* wait (Downloader.waitForPieces).                                        *)
(*                                                                         *)
(* Spec      the scheduler with its worker tasks, the result channel, the  *)
(*           stats mutex and the consumer of the channel.                  *)
(* SpecScan  the scheduler with one hash and the scan in detail: the child *)
(*           process, its stdout and exit status, executeScan's tail.      *)
(* SpecShare the scheduler with the scan in two steps around AddMagnet,    *)
(*           for scans that share the in-process client.                   *)
(* SpecBudget processOne seen from the byte budgets it requests.            *)
(* SpecPlan  the piece plan of PartialDownload and RequestMorePieces.      *)
(* SpecPick  findLargestVideo over a torrent's file list.                  *)
(* SpecResolve  resolveFilePath against a scratch directory.               *)
(* SpecWait  one call of waitForPieces against a clock, a swarm that       *)
(*           completes pieces and delivers bytes, and a cancellation.      *)
(* SpecLang  NormalizeLang, ComputeLanguages and ApplyLangDetection.       *)
(* SpecStats Stats.RecordResult, the same calls in two orders.             *)
(* SpecError errorResult over the messages of a failed fetch.              *)
(* SpecTotal one scan on one clock: the metadata wait and the piece waits  *)
(*           of the initial fetch and of every retry.                      *)
(***************************************************************************)
EXTENDS Integers, Sequences, FiniteSets, TLC

(* ---- bounds ---- *)
MaxHashes == 2          \* longest submitted hash list
MaxConcurrency == 2     \* largest cfg.Concurrency
MaxRetries == 1         \* cfg.MaxFFprobeRetries
MaxAudio == 1           \* most audio streams a probe reports
MaxClock == 5           \* seconds a piece wait is followed for
MaxStall == 2           \* largest d.cfg.StallTimeout, in seconds
NumRequired == 2        \* pieces in the required set
MaxBytes == 2           \* largest cumulative bytes-read counter
MaxLead == 1            \* seconds a worker's context is older than its piece wait
MaxElapsed == 1         \* largest elapsed_ms a scan measures
MaxSignal == 15         \* largest signal number that ends a worker
MaxExit == 2            \* largest nonzero exit code of a worker
MaxStdout == 201        \* most bytes of undecodable worker stdout
MaxThreshold == 3       \* largest cfg.MinBytesMKV and cfg.MinBytesMP4
MaxBudgetRetries == 2   \* largest cfg.MaxFFprobeRetries of a scan followed by its budget
MaxPieceLen == 3        \* largest piece length, in bytes
MaxOffset == 4          \* largest byte offset of the target file in the torrent
MaxFileLen == 6         \* largest length of the target file, in bytes
MaxPlanBytes == 6       \* largest byte budget of an initial fetch
MaxFiles == 3           \* most files in a torrent
MaxVideoLen == 2        \* largest file length in a file list, in bytes
MaxTracks == 2          \* most audio streams with a language tag
MaxExisting == 2        \* longest existing language list
MaxRecords == 2         \* most RecordResult calls on one Stats
MaxPhrases == 3         \* most of the known phrases in one error message
MaxScanTimeout == 2     \* largest d.cfg.MaxTimeout of a scan followed on one clock, in seconds
MaxScanClock == 6       \* seconds one scan is followed for

(* ---- hashes: strings as tuples of characters ---- *)
HashLong1 == <<1, 1, 1, 1, 1, 1, 1, 1, 2>>
HashShort == <<7, 8, 9>>
HashUniverse == {HashLong1, HashShort}

\* every list of at most n hashes
HashLists(n) == UNION {[1..k -> HashUniverse] : k \in 0..n}

\* h[:8] panics (slice bounds out of range) when the string is shorter
SliceOK(h) == Len(h) >= 8

TruncHash(h) == IF Len(h) > 8 THEN SubSeq(h, 1, 8) ELSE h

(* ---- results ---- *)
\* an error message is modelled by the set of phrases it contains
Contains(errMsg, phrase) == phrase \in errMsg

NoMsg == {}

\* a ScanResult; a field a struct literal leaves out has its zero value.
\* Preview is the argument of "(output: %s)" in the error text
Result(h, status, errMsg, audio, video) ==
    [InfoHash |-> h, Status |-> status, Error |-> errMsg,
     Audio |-> audio, Video |-> video, ElapsedMs |-> 0, Preview |-> <<>>]

NoResult == Result(<<>>, "none", NoMsg, 0, FALSE)

\* ElapsedMs: time.Since(start).Milliseconds()
Since(r, ms) == [r EXCEPT !.ElapsedMs = ms]

errorResult_StallFirst(h, errMsg) ==
    LET status ==
          IF Contains(errMsg, "stall") THEN "stall_download"
          ELSE IF Contains(errMsg, "metadata timeout") THEN "stall_metadata"
          ELSE IF Contains(errMsg, "max timeout") THEN "timeout"
          ELSE IF Contains(errMsg, "no video file") THEN "no_video"
          ELSE IF Contains(errMsg, "not found on disk") THEN "file_not_found"
          ELSE "error"
    IN Result(h, status, errMsg, 0, FALSE)

errorResult(h, errMsg) ==
    LET status ==
          IF Contains(errMsg, "metadata timeout") THEN "stall_metadata"
          ELSE IF Contains(errMsg, "stall") THEN "stall_download"
          ELSE IF Contains(errMsg, "max timeout") THEN "timeout"
          ELSE IF Contains(errMsg, "no video file") THEN "no_video"
          ELSE IF Contains(errMsg, "not found on disk") THEN "file_not_found"
          ELSE "error"
    IN Result(h, status, errMsg, 0, FALSE)

workerCrashResult(h, reason) == Result(h, "worker_crashed", reason, 0, FALSE)

workerErrorResult(h, reason) == Result(h, "worker_error", reason, 0, FALSE)

workerFailedResult(h, reason) == Result(h, "worker_failed", {"worker failed"} \cup reason, 0, FALSE)

cancelledResult_WrongText(h) == Result(h, "error", {"failed to create downloader"}, 0, FALSE)

cancelledResult(h) == Result(h, "error", {"cancelled"}, 0, FALSE)

dlFailResult(h) == Result(h, "error", {"failed to create downloader"}, 0, FALSE)

\* runWorker's recover: Status "worker_error", Error "panic: %v"
panicResult(h) == Result(h, "worker_error", {"panic"}, 0, FALSE)

(* ---- the worker's stdout and exit status ---- *)
\* stdout holds JSON documents and other bytes
NoStdout == [doc |-> <<>>, raw |-> <<>>]

\* json.NewEncoder(originalStdout).Encode(output)
Encode(output) == [doc |-> <<output>>, raw |-> <<>>]

\* other bytes on stdout: n times the byte 'x'
RawStdout(n) == [doc |-> <<>>, raw |-> [i \in 1..n |-> 120]]

\* json.Unmarshal succeeds on exactly one document
Decodable(stdout) == Len(stdout.doc) = 1 /\ stdout.raw = <<>>

Unmarshal(stdout) == stdout.doc[1]

PreviewLimit == 200

\* "... (truncated)"
TruncatedMark == <<46, 46, 46, 32, 40, 116, 114, 117, 110, 99, 97, 116, 101, 100, 41>>

truncateOutput_NoCut(data) == data

truncateOutput(data) ==
    IF Len(data) <= PreviewLimit THEN data
    ELSE SubSeq(data, 1, PreviewLimit) \o TruncatedMark

\* syscall signal numbers (linux)
SIGINT == 2
SIGABRT == 6
SIGBUS == 7
SIGKILL == 9
SIGSEGV == 11
SIGTERM == 15

signalName_Numeric(sig) == "signal " \o ToString(sig)

signalName(sig) ==
    IF sig = SIGBUS THEN "SIGBUS"
    ELSE IF sig = SIGSEGV THEN "SIGSEGV"
    ELSE IF sig = SIGKILL THEN "SIGKILL"
    ELSE IF sig = SIGTERM THEN "SIGTERM"
    ELSE IF sig = SIGINT THEN "SIGINT"
    ELSE IF sig = SIGABRT THEN "SIGABRT"
    ELSE "signal " \o ToString(sig)

\* what cmd.Wait reports: no process, an exit code, or a signal
NoExit == [kind |-> "none", n |-> 0]
ExitCode(n) == [kind |-> "exit", n |-> n]
Signaled(sig) == [kind |-> "signal", n |-> sig]

\* processOneIsolated after io.ReadAll succeeded: cmd.Wait and the
\* analysis of its error
Classify(h, stdout, st) ==
    IF st = ExitCode(0)
    THEN IF Decodable(stdout)
         THEN Unmarshal(stdout)
         ELSE [workerErrorResult(h, {"invalid worker output"})
                   EXCEPT !.Preview = truncateOutput(stdout.raw)]
    ELSE IF st.kind = "signal"
         THEN workerCrashResult(h, {"killed by signal", signalName(st.n)})
         ELSE workerErrorResult(h, {"exit " \o ToString(st.n)})

(* ---- stats ---- *)
EmptyStats == [TotalScanned |-> 0, TotalSuccess |-> 0, TotalFailed |-> 0]

RecordResult(s, result) ==
    IF result.Status = "success"
    THEN [s EXCEPT !.TotalScanned = @ + 1, !.TotalSuccess = @ + 1]
    ELSE [s EXCEPT !.TotalScanned = @ + 1, !.TotalFailed = @ + 1]

(* ---- actors that take the stats mutex ---- *)
NoActor == <<>>
MainActor == <<"main">>
WorkerActor(p) == <<"worker", p>>

VARIABLES
    hashes,        \* the submitted list
    concurrency,   \* cfg.Concurrency
    useIsolation,  \* getExePath() succeeded
    dlErr,         \* NewDownloader fails in the in-process fallback
    hasStats,      \* stats != nil
    ctxDone,       \* the parent context is cancelled
    mpc,           \* position of the scheduler goroutine
    idx,           \* loop variable i of the dispatch loop (1-based)
    jdx,           \* loop variable of the inner emit loops (1-based)
    sem,           \* permits held in the semaphore channel
    wg,            \* WaitGroup counter
    w,             \* worker task per list position
    mu,            \* holder of the stats mutex: an actor, or NoActor
    inMut,         \* actors inside a stats mutation
    stats,         \* the stats record
    statsLog,      \* per position: the results RecordResult was applied to
    ch,            \* buffer of the results channel
    closed,        \* the results channel is closed
    sent,          \* per position: the results sent on the channel
    lateSend,      \* a send happened after the channel was closed
    lateMut,       \* a stats mutation happened after the channel was closed
    received,      \* results taken by the consumer
    panicked,      \* the parent process died of a panic
    xpc,           \* position of executeScan: "collect", "postclean", "exited"
    rootExists     \* the scratch root cfg.TempDir exists

schedVars == <<hashes, concurrency, useIsolation, dlErr, hasStats, ctxDone, mpc,
               idx, jdx, sem, wg, w, mu, inMut, stats, statsLog, ch, closed,
               sent, lateSend, lateMut, received, panicked, xpc, rootExists>>

VARIABLES
    wpc,           \* waitForPieces: "idle", "wait", "ok", "stall", "timeout", "cancelled"
    stallTimeout,  \* d.cfg.StallTimeout, in clock units
    maxTimeout,    \* d.cfg.MaxTimeout, in clock units
    isolated,      \* the wait runs in a worker process (RunWorker)
    clock,         \* time since the wait began
    wctx,          \* the wait's context is done
    piecesDone,    \* required pieces complete now
    bytesRead,     \* cumulative bytes read of the torrent now
    lastPieceAt, lastBytesAt, lastCompleted, lastBytes,
    realPieceAt,   \* when a required piece last completed (or the start)
    realBytesAt,   \* when bytes read last grew (or the start)
    ticked         \* the ticker has a tick pending

waitVars == <<wpc, stallTimeout, maxTimeout, isolated, clock, wctx, piecesDone, bytesRead,
              lastPieceAt, lastBytesAt, lastCompleted, lastBytes,
              realPieceAt, realBytesAt, ticked>>

VARIABLES
    po,            \* processOne seen from its byte budget (SpecBudget)
    pl,            \* a piece plan and the input it was computed from (SpecPlan)
    fl,            \* findLargestVideo and its input (SpecPick)
    rs             \* resolveFilePath and the scratch directory (SpecResolve)

VARIABLES
    lg,            \* ComputeLanguages and its input (SpecLang)
    sr,            \* two recording orders of StatsCollector (SpecStats)
    er,            \* errorResult and the message it classifies (SpecError)
    tw             \* the piece waits of one scan on one clock (SpecTotal)

moreVars == <<lg, sr, er, tw>>

calcVars == <<po, pl, fl, rs, moreVars>>

vars == <<schedVars, waitVars, calcVars>>

cfgVars == <<hashes, concurrency, useIsolation, dlErr, hasStats>>

N == Len(hashes)

Pos == 1..N

\* a task: its position, the probe loop's counters, the child's context,
\* scratch subdirectory, stdout and exit status, and how the scan ended
IdleWorker == [pc |-> "idle", attempt |-> 0, probes |-> 0, expired |-> FALSE,
               sawCancel |-> FALSE, res |-> NoResult, subdir |-> FALSE,
               stdout |-> NoStdout, exit |-> NoExit, how |-> "none",
               lost |-> FALSE]

SchedIdle ==
    /\ hashes = <<>> /\ concurrency = 0 /\ useIsolation = FALSE /\ dlErr = FALSE
    /\ hasStats = FALSE /\ ctxDone = FALSE /\ mpc = "off" /\ idx = 1 /\ jdx = 1
    /\ sem = 0 /\ wg = 0 /\ w = <<>> /\ mu = NoActor /\ inMut = {}
    /\ stats = EmptyStats /\ statsLog = <<>> /\ ch = <<>> /\ closed = FALSE
    /\ sent = <<>> /\ lateSend = FALSE /\ lateMut = FALSE /\ received = 0
    /\ panicked = FALSE /\ xpc = "off" /\ rootExists = FALSE

WaitIdle ==
    /\ wpc = "idle" /\ stallTimeout = 0 /\ maxTimeout = 0 /\ clock = 0
    /\ isolated = FALSE
    /\ wctx = FALSE /\ piecesDone = 0 /\ bytesRead = 0
    /\ lastPieceAt = 0 /\ lastBytesAt = 0 /\ lastCompleted = 0 /\ lastBytes = 0
    /\ realPieceAt = 0 /\ realBytesAt = 0 /\ ticked = FALSE

Off == [pc |-> "off"]

MoreIdle == lg = Off /\ sr = Off /\ er = Off /\ tw = Off

CalcIdle == po = Off /\ pl = Off /\ fl = Off /\ rs = Off /\ MoreIdle

InitSched(lists, concs) ==
    /\ hashes \in lists
    /\ concurrency \in concs
    /\ useIsolation \in BOOLEAN
    /\ dlErr \in BOOLEAN
    /\ (dlErr => ~useIsolation)
    /\ hasStats \in BOOLEAN
    /\ ctxDone = FALSE
    /\ mpc = "start" /\ idx = 1 /\ jdx = 1
    /\ sem = 0 /\ wg = 0
    /\ w = [p \in 1..Len(hashes) |-> IdleWorker]
    /\ mu = NoActor /\ inMut = {}
    /\ stats = EmptyStats
    /\ statsLog = [p \in 1..Len(hashes) |-> <<>>]
    /\ ch = <<>> /\ closed = FALSE
    /\ sent = [p \in 1..Len(hashes) |-> <<>>]
    /\ lateSend = FALSE /\ lateMut = FALSE /\ received = 0
    /\ panicked = FALSE
    /\ xpc = "collect" /\ rootExists = FALSE
    /\ WaitIdle
    /\ CalcIdle

\* every list of at most MaxHashes hashes, every concurrency up to MaxConcurrency
Init == InitSched(HashLists(MaxHashes), 0..MaxConcurrency)

\* one submitted hash, scanned in detail
InitScan == InitSched([1..1 -> HashUniverse], 1..1)

(* ---- the results channel: make(chan ScanResult, cfg.Concurrency) ---- *)
\* a send proceeds when the buffer has room; on an unbuffered channel it is
\* a hand-off to the consumer, which ranges over the channel
CanSend == concurrency = 0 \/ Len(ch) < concurrency

SendOn(p, r) ==
    /\ CanSend
    /\ sent' = [sent EXCEPT ![p] = Append(@, r)]
    /\ lateSend' = (lateSend \/ closed)
    /\ IF concurrency = 0
       THEN ch' = ch /\ received' = received + 1
       ELSE ch' = Append(ch, [pos |-> p, result |-> r]) /\ received' = received

\* the consumer: for result := range results
Receive ==
    /\ ~panicked
    /\ ch # <<>>
    /\ ch' = Tail(ch)
    /\ received' = received + 1
    /\ UNCHANGED <<cfgVars, ctxDone, mpc, idx, jdx, sem, wg, w, mu, inMut, stats,
                   statsLog, closed, sent, lateSend, lateMut, panicked>>
    /\ UNCHANGED <<xpc, rootExists, waitVars, calcVars>>

\* signal.NotifyContext: SIGINT / SIGTERM cancels the parent context
Cancel ==
    /\ ~panicked /\ ~ctxDone /\ ~closed
    /\ mpc # "off"
    /\ ctxDone' = TRUE
    /\ UNCHANGED <<cfgVars, mpc, idx, jdx, sem, wg, w, mu, inMut, stats, statsLog,
                   ch, closed, sent, lateSend, lateMut, received, panicked>>
    /\ UNCHANGED <<xpc, rootExists, waitVars, calcVars>>

(* ---- stats mutation: RecordResult (+ RecordTraffic) ---- *)
MutexFree_Unlocked == TRUE

\* mu.Lock()
MutexFree == mu = NoActor

RecordsStats_NotOnCancel(branch) == hasStats /\ branch # "cancel"

\* if stats != nil
RecordsStats(branch) == hasStats

BeginMut(a) == inMut' = inMut \cup {a}

EndMut(a, p, r) ==
    /\ inMut' = inMut \ {a}
    /\ stats' = RecordResult(stats, r)
    /\ statsLog' = [statsLog EXCEPT ![p] = Append(@, r)]
    /\ lateMut' = (lateMut \/ closed)

(* ---- the scheduler goroutine ---- *)
\* getExePath(); in the fallback NewDownloader: os.MkdirAll(cfg.TempDir),
\* torrent.NewClient
Setup ==
    /\ ~panicked /\ mpc = "start"
    /\ IF ~useIsolation /\ dlErr
       THEN mpc' = "dlfail" /\ jdx' = 1 /\ rootExists' \in BOOLEAN
       ELSE mpc' = "loop" /\ jdx' = jdx /\ rootExists' = ~useIsolation
    /\ UNCHANGED <<cfgVars, ctxDone, idx, sem, wg, w, mu, inMut, stats, statsLog,
                   ch, closed, sent, lateSend, lateMut, received, panicked>>
    /\ UNCHANGED <<xpc, waitVars, calcVars>>

\* for _, h := range hashes { result := ...; if stats != nil { stats.RecordResult
DlFailNext ==
    /\ ~panicked /\ mpc = "dlfail" /\ jdx <= N
    /\ IF RecordsStats("dlfail")
       THEN BeginMut(MainActor) /\ mpc' = "dlfail_rec"
       ELSE inMut' = inMut /\ mpc' = "dlfail_send"
    /\ UNCHANGED <<cfgVars, ctxDone, idx, jdx, sem, wg, w, mu, stats, statsLog,
                   ch, closed, sent, lateSend, lateMut, received, panicked>>
    /\ UNCHANGED <<xpc, rootExists, waitVars, calcVars>>

DlFailRecorded ==
    /\ ~panicked /\ mpc = "dlfail_rec"
    /\ EndMut(MainActor, jdx, dlFailResult(hashes[jdx]))
    /\ mpc' = "dlfail_send"
    /\ UNCHANGED <<cfgVars, ctxDone, idx, jdx, sem, wg, w, mu,
                   ch, closed, sent, lateSend, received, panicked>>
    /\ UNCHANGED <<xpc, rootExists, waitVars, calcVars>>

DlFailSend ==
    /\ ~panicked /\ mpc = "dlfail_send"
    /\ SendOn(jdx, dlFailResult(hashes[jdx]))
    /\ jdx' = jdx + 1
    /\ mpc' = "dlfail"
    /\ UNCHANGED <<cfgVars, ctxDone, idx, sem, wg, w, mu, inMut, stats, statsLog,
                   closed, lateMut, panicked>>
    /\ UNCHANGED <<xpc, rootExists, waitVars, calcVars>>

\* return; deferred close(results)
DlFailReturn ==
    /\ ~panicked /\ mpc = "dlfail" /\ jdx > N
    /\ closed' = TRUE
    /\ mpc' = "done"
    /\ UNCHANGED <<cfgVars, ctxDone, idx, jdx, sem, wg, w, mu, inMut, stats,
                   statsLog, ch, sent, lateSend, lateMut, received, panicked>>
    /\ UNCHANGED <<xpc, rootExists, waitVars, calcVars>>

PermitFree_OffByOne == sem <= concurrency

\* case sem <- struct{}{}: a send on a channel of capacity cfg.Concurrency
PermitFree == sem < concurrency

\* select { ... case sem <- struct{}{}: }; wg.Add(1); go func(h, idx)
LoopAcquire ==
    /\ ~panicked /\ mpc = "loop" /\ idx <= N
    /\ PermitFree
    /\ sem' = sem + 1
    /\ wg' = wg + 1
    /\ w' = [w EXCEPT ![idx].pc = "spawned"]
    /\ idx' = idx + 1
    /\ UNCHANGED <<cfgVars, ctxDone, mpc, jdx, mu, inMut, stats, statsLog, ch,
                   closed, sent, lateSend, lateMut, received, panicked>>
    /\ UNCHANGED <<xpc, rootExists, waitVars, calcVars>>

CancelFrom_SkipsOne(i) == i + 1

\* hashes[i:]
CancelFrom(i) == i

\* select { case <-ctx.Done(): for _, h := range hashes[i:]
LoopCancel ==
    /\ ~panicked /\ mpc = "loop" /\ idx <= N
    /\ ctxDone
    /\ mpc' = "cancel"
    /\ jdx' = CancelFrom(idx)
    /\ UNCHANGED <<cfgVars, ctxDone, idx, sem, wg, w, mu, inMut, stats, statsLog,
                   ch, closed, sent, lateSend, lateMut, received, panicked>>
    /\ UNCHANGED <<xpc, rootExists, waitVars, calcVars>>

\* the range over hashes is exhausted
LoopEnd ==
    /\ ~panicked /\ mpc = "loop" /\ idx > N
    /\ mpc' = "wait"
    /\ UNCHANGED <<cfgVars, ctxDone, idx, jdx, sem, wg, w, mu, inMut, stats,
                   statsLog, ch, closed, sent, lateSend, lateMut, received, panicked>>
    /\ UNCHANGED <<xpc, rootExists, waitVars, calcVars>>

\* if stats != nil { mu.Lock(); stats.RecordResult(result, 0)
CancelNext ==
    /\ ~panicked /\ mpc = "cancel" /\ jdx <= N
    /\ IF RecordsStats("cancel")
       THEN /\ MutexFree
            /\ mu' = MainActor
            /\ BeginMut(MainActor)
            /\ mpc' = "cancel_rec"
       ELSE /\ mu' = mu /\ inMut' = inMut
            /\ mpc' = "cancel_send"
    /\ UNCHANGED <<cfgVars, ctxDone, idx, jdx, sem, wg, w, stats, statsLog,
                   ch, closed, sent, lateSend, lateMut, received, panicked>>
    /\ UNCHANGED <<xpc, rootExists, waitVars, calcVars>>

\* ... mu.Unlock() }
CancelRecorded ==
    /\ ~panicked /\ mpc = "cancel_rec"
    /\ EndMut(MainActor, jdx, cancelledResult(hashes[jdx]))
    /\ mu' = NoActor
    /\ mpc' = "cancel_send"
    /\ UNCHANGED <<cfgVars, ctxDone, idx, jdx, sem, wg, w,
                   ch, closed, sent, lateSend, received, panicked>>
    /\ UNCHANGED <<xpc, rootExists, waitVars, calcVars>>

\* results <- result
CancelSend ==
    /\ ~panicked /\ mpc = "cancel_send"
    /\ SendOn(jdx, cancelledResult(hashes[jdx]))
    /\ jdx' = jdx + 1
    /\ mpc' = "cancel"
    /\ UNCHANGED <<cfgVars, ctxDone, idx, sem, wg, w, mu, inMut, stats, statsLog,
                   closed, lateMut, panicked>>
    /\ UNCHANGED <<xpc, rootExists, waitVars, calcVars>>

CancelEnd ==
    /\ ~panicked /\ mpc = "cancel" /\ jdx > N
    /\ mpc' = "wait"
    /\ UNCHANGED <<cfgVars, ctxDone, idx, jdx, sem, wg, w, mu, inMut, stats,
                   statsLog, ch, closed, sent, lateSend, lateMut, received, panicked>>
    /\ UNCHANGED <<xpc, rootExists, waitVars, calcVars>>

WaitGroupDrained_NoWait == TRUE

\* wg.Wait()
WaitGroupDrained == wg = 0

\* wg.Wait(); return; deferred dl.Close() and close(results)
WaitClose ==
    /\ ~panicked /\ mpc = "wait"
    /\ WaitGroupDrained
    /\ closed' = TRUE
    /\ mpc' = "done"
    /\ UNCHANGED <<cfgVars, ctxDone, idx, jdx, sem, wg, w, mu, inMut, stats,
                   statsLog, ch, sent, lateSend, lateMut, received, panicked>>
    /\ UNCHANGED <<xpc, rootExists, waitVars, calcVars>>

(* ---- one worker task: go func(h string, idx int) ---- *)
\* the scan is under way: in isolation the worker process runs
InFlight(p) == w[p].pc \in {"setup", "meta", "pieces", "probe"}

\* the scan has its torrent handle: t of d.client.AddMagnet
HoldsHandle(p) == w[p].pc \in {"meta", "pieces", "probe"}

\* the context processOne runs under: the parent's in the in-process
\* fallback, the child's own timeout context in a worker process
ScanCtxDone(p) == IF useIsolation THEN w[p].expired ELSE ctxDone

ScanCtxErr == IF useIsolation THEN {"context deadline exceeded"} ELSE {"context canceled"}

ElapsedTimes == 0..MaxElapsed

\* the task has its result
Finish(p, r) == w' = [w EXCEPT ![p].pc = "result", ![p].res = r]

\* Downloader.Cleanup(hash) by task p on the shared client drops the torrent
\* of that hash, which the scan of task q holds
Drops(p, q) == q # p /\ hashes[q] = hashes[p] /\ HoldsHandle(q)

\* processOne returns r.  In a worker process: RunWorker's deferred
\* os.RemoveAll(subdir), runWorker encodes the output, exit 0.  In-process:
\* processOneInProcess goes on with dl.GetTorrentStats and dl.Cleanup.
ScanEndsFrom(ws, p, r, saw) ==
    IF useIsolation
    THEN w' = [ws EXCEPT ![p].pc = "exited", ![p].stdout = Encode(r),
                         ![p].exit = ExitCode(0), ![p].subdir = FALSE,
                         ![p].how = "returned"]
    ELSE w' = [q \in Pos |->
                 IF q = p
                 THEN [ws[p] EXCEPT !.pc = "result", !.res = r, !.sawCancel = saw,
                                    !.how = "returned"]
                 ELSE IF Drops(p, q) THEN [ws[q] EXCEPT !.lost = TRUE]
                 ELSE ws[q]]

ScanEnds(p, r, saw) == ScanEndsFrom(w, p, r, saw)

Return(p, r) == ScanEnds(p, r, FALSE)

\* the scan ends because it saw the parent's cancellation
FinishCancelled(p, r) == ScanEnds(p, r, ~useIsolation)

wUnchanged == <<cfgVars, ctxDone, mpc, idx, jdx, sem, wg, mu, inMut, stats,
                statsLog, ch, closed, sent, lateSend, lateMut, received, xpc>>

\* isolated: cfg.ToWorkerInput and processOneIsolated up to cmd.Start;
\* fallback: processOneInProcess up to the call of processOne
WStart(p) ==
    /\ ~panicked /\ w[p].pc = "spawned"
    /\ LET h == hashes[p] IN
       IF useIsolation
       THEN IF ~SliceOK(h)
            THEN \* input.InfoHash[:8] in the parent
                 panicked' = TRUE /\ w' = w
            ELSE /\ panicked' = panicked
                 /\ IF ctxDone
                    THEN \* Start fails and closes the pipe, ctx.Err() != nil:
                         \* falls through to io.ReadAll, which fails
                         w' = [w EXCEPT ![p].pc = "result", ![p].how = "nospawn",
                                 ![p].res = workerCrashResult(h, {"read stdout failed"})]
                    ELSE \/ w' = [w EXCEPT ![p].pc = "result", ![p].how = "nospawn",
                                    ![p].res = workerFailedResult(h, {"start worker"})]
                         \/ w' = [w EXCEPT ![p].pc = "setup"]
       ELSE /\ panicked' = panicked
            /\ w' = [w EXCEPT ![p].pc = "setup"]
    /\ UNCHANGED <<wUnchanged, rootExists>>
    /\ UNCHANGED <<waitVars, calcVars>>

\* exec.CommandContext kills the child (os.Process.Kill) when the parent
\* context is done; processOneIsolated classifies the exit
WKilled(p) ==
    /\ ~panicked /\ useIsolation /\ InFlight(p)
    /\ ctxDone
    /\ w' = [w EXCEPT ![p].pc = "result",
                      ![p].sawCancel = (w[p].pc \in {"meta", "pieces"}),
                      ![p].exit = Signaled(SIGKILL),
                      ![p].how = "killed",
                      ![p].res = Classify(hashes[p], NoStdout, Signaled(SIGKILL))]
    /\ UNCHANGED <<wUnchanged, panicked, rootExists>>
    /\ UNCHANGED <<waitVars, calcVars>>

(* ---- the scan in detail (SpecScan) ---- *)
\* the child's RunWorker up to processOne (MkdirAll, NewDownloader), then
\* PartialDownload up to AddMagnet
WSetup(p) ==
    /\ ~panicked /\ w[p].pc = "setup"
    /\ \E ms \in ElapsedTimes :
        LET h == hashes[p] IN
        \/ /\ useIsolation
           /\ Return(p, Since(errorResult(h, {"create worker dir"}), ms))
           /\ rootExists' = rootExists
        \/ /\ useIsolation
           /\ Return(p, Since(errorResult(h, {"create downloader"}), ms))
           /\ rootExists' = TRUE
        \/ /\ Return(p, Since(errorResult(h, {"add magnet"}), ms))
           /\ rootExists' = (rootExists \/ useIsolation)
        \/ /\ ms = 0
           /\ w' = [w EXCEPT ![p].pc = "meta", ![p].subdir = useIsolation]
           /\ rootExists' = (rootExists \/ useIsolation)
    /\ UNCHANGED <<wUnchanged, panicked>>
    /\ UNCHANGED <<waitVars, calcVars>>

\* PartialDownload: select on t.GotInfo() and metaCtx.Done(), findLargestVideo
WMeta(p) ==
    /\ ~panicked /\ w[p].pc = "meta"
    /\ \E ms \in ElapsedTimes :
        LET h == hashes[p] IN
        \/ ms = 0 /\ w' = [w EXCEPT ![p].pc = "pieces"]
        \/ Return(p, Since(errorResult(h, {"no video file"}), ms))
        \/ Return(p, Since(errorResult(h, {"metadata timeout"}), ms))
        \/ /\ ScanCtxDone(p)
           /\ FinishCancelled(p, Since(errorResult(h, {"metadata timeout"}), ms))
    /\ UNCHANGED <<wUnchanged, panicked, rootExists>>
    /\ UNCHANGED <<waitVars, calcVars>>

\* waitForPieces and what follows it: in PartialDownload resolveFilePath and
\* ResolveFFprobe, in RequestMorePieces the next probe attempt
WPieces(p) ==
    /\ ~panicked /\ w[p].pc = "pieces"
    /\ \E ms \in ElapsedTimes :
        LET h == hashes[p] IN
        \/ /\ ScanCtxDone(p)
           /\ FinishCancelled(p, Since(errorResult(h, ScanCtxErr), ms))
        \/ Return(p, Since(errorResult(h, {"max timeout"}), ms))
        \/ Return(p, Since(errorResult(h, {"stall", "no progress"}), ms))
        \/ ms = 0 /\ w' = [w EXCEPT ![p].pc = "probe"]
        \/ /\ w[p].attempt = 0
           /\ \/ Return(p, Since(errorResult(h, {"not found on disk"}), ms))
              \/ Return(p, Since(Result(h, "error", {"ffprobe not found"}, 0, FALSE), ms))
    /\ UNCHANGED <<wUnchanged, panicked, rootExists>>
    /\ UNCHANGED <<waitVars, calcVars>>

ProbeSuccess_NoAudioCheck(err, audio) == ~err

\* if err == nil && media != nil && len(media.Audio) > 0
ProbeSuccess(err, audio) == ~err /\ audio > 0

RetryAllowed_OneMore(attempt) == attempt <= MaxRetries

\* if attempt < cfg.MaxFFprobeRetries
RetryAllowed(attempt) == attempt < MaxRetries

\* one iteration of the probe loop of processOne: ExtractMediaInfo, then the
\* result, or minBytes *= 2 and RequestMorePieces
WProbe(p) ==
    /\ ~panicked /\ w[p].pc = "probe"
    /\ \E err \in BOOLEAN, audio \in 0..MaxAudio, video \in BOOLEAN, ms \in ElapsedTimes :
         /\ err => (audio = 0 /\ ~video)
         /\ LET h == hashes[p]
                probed == [w EXCEPT ![p].probes = @ + 1]
            IN IF ProbeSuccess(err, audio)
               THEN ScanEndsFrom(probed, p,
                        Since(Result(h, "success", NoMsg, audio, video), ms), FALSE)
               ELSE IF RetryAllowed(w[p].attempt)
                    THEN /\ ms = 0
                         /\ w' = [probed EXCEPT ![p].pc = "pieces", ![p].attempt = @ + 1]
                    ELSE ScanEndsFrom(probed, p,
                             Since(Result(h, "ffprobe_failed", NoMsg, 0, FALSE), ms), FALSE)
    /\ UNCHANGED <<wUnchanged, panicked, rootExists>>
    /\ UNCHANGED <<waitVars, calcVars>>

\* RunWorker: context.WithTimeout(ctx, input.TimeoutSeconds) expires
WChildExpire(p) ==
    /\ ~panicked /\ useIsolation /\ InFlight(p) /\ ~w[p].expired
    /\ w' = [w EXCEPT ![p].expired = TRUE]
    /\ UNCHANGED <<wUnchanged, panicked, rootExists>>
    /\ UNCHANGED <<waitVars, calcVars>>

\* the child dies on its own: by a signal, with a nonzero exit code (a fatal
\* runtime error, os.Exit(1)), or with exit 0 and bytes on its stdout that
\* are no result.  Deferred calls do not run in a process that dies.
WChildDies(p) ==
    /\ ~panicked /\ useIsolation /\ InFlight(p)
    /\ \/ \E sig \in 1..MaxSignal :
            w' = [w EXCEPT ![p].pc = "exited", ![p].exit = Signaled(sig),
                           ![p].how = "signal"]
       \/ \E code \in 1..MaxExit :
            w' = [w EXCEPT ![p].pc = "exited", ![p].exit = ExitCode(code),
                           ![p].how = "exit"]
       \/ \E n \in 0..MaxStdout :
            w' = [w EXCEPT ![p].pc = "exited", ![p].exit = ExitCode(0),
                           ![p].stdout = RawStdout(n), ![p].subdir = FALSE,
                           ![p].how = "garbage"]
    /\ UNCHANGED <<wUnchanged, panicked, rootExists>>
    /\ UNCHANGED <<waitVars, calcVars>>

PanicExit_Crash == ExitCode(2)

\* after recover() runWorker returns and main ends: exit 0
PanicExit == ExitCode(0)

\* a panic in the child's scan: RunWorker's deferred calls run
\* (os.RemoveAll(subdir), dl.Close()), runWorker's deferred recover encodes
\* the panic result
WChildPanic(p) ==
    /\ ~panicked /\ useIsolation /\ InFlight(p)
    /\ w' = [w EXCEPT ![p].pc = "exited",
                      ![p].stdout = Encode(panicResult(hashes[p])),
                      ![p].exit = PanicExit,
                      ![p].subdir = FALSE,
                      ![p].how = "panicked"]
    /\ UNCHANGED <<wUnchanged, panicked, rootExists>>
    /\ UNCHANGED <<waitVars, calcVars>>

\* processOneIsolated: io.ReadAll(stdout), cmd.Wait(), the analysis.  When
\* the context is done before cmd.Wait has reaped a child that exited with
\* code 0, the kill still succeeds and cmd.Wait returns ctx.Err(): the last
\* branch, workerErrorResult(wErr.Error())
WClassify(p) ==
    /\ ~panicked /\ useIsolation /\ w[p].pc = "exited"
    /\ \/ Finish(p, Classify(hashes[p], w[p].stdout, w[p].exit))
       \/ /\ ctxDone /\ w[p].exit = ExitCode(0)
          /\ w' = [w EXCEPT ![p].pc = "result", ![p].sawCancel = TRUE,
                            ![p].res = workerErrorResult(hashes[p], {"context canceled"})]
    /\ UNCHANGED <<wUnchanged, panicked, rootExists>>
    /\ UNCHANGED <<waitVars, calcVars>>

(* ---- the scan as one step (Spec) ---- *)
\* what a scan that is under way can end with: one successful result, one
\* failed result and one crash of the child stand for the outcomes that
\* WSetup .. WClassify produce; a scan that sees the cancellation ends as
\* WMeta and WPieces end it
WScan(p) ==
    /\ ~panicked /\ w[p].pc = "setup"
    /\ LET h == hashes[p] IN
       \/ /\ useIsolation
          /\ \/ Finish(p, Classify(h, Encode(Since(Result(h, "success", NoMsg, 1, TRUE), MaxElapsed)),
                                   ExitCode(0)))
             \/ Finish(p, Classify(h, Encode(Since(errorResult(h, {"stall", "no progress"}), MaxElapsed)),
                                   ExitCode(0)))
             \/ Finish(p, Classify(h, NoStdout, Signaled(SIGBUS)))
       \/ /\ ~useIsolation
          /\ \/ Return(p, Since(Result(h, "success", NoMsg, 1, TRUE), MaxElapsed))
             \/ Return(p, Since(errorResult(h, {"stall", "no progress"}), MaxElapsed))
             \/ /\ ctxDone
                /\ \/ FinishCancelled(p, Since(errorResult(h, {"metadata timeout"}), MaxElapsed))
                   \/ FinishCancelled(p, Since(errorResult(h, ScanCtxErr), MaxElapsed))
    /\ rootExists' = (rootExists \/ useIsolation)
    /\ UNCHANGED <<wUnchanged, panicked>>
    /\ UNCHANGED <<waitVars, calcVars>>

(* ---- recording and emitting the result ---- *)
\* if stats != nil { mu.Lock(); stats.RecordResult(result, downloaded)
WLock(p) ==
    /\ ~panicked /\ w[p].pc = "result"
    /\ IF RecordsStats("worker")
       THEN /\ MutexFree
            /\ mu' = WorkerActor(p)
            /\ BeginMut(WorkerActor(p))
            /\ w' = [w EXCEPT ![p].pc = "recording"]
       ELSE /\ mu' = mu /\ inMut' = inMut
            /\ w' = [w EXCEPT ![p].pc = "send"]
    /\ UNCHANGED <<cfgVars, ctxDone, mpc, idx, jdx, sem, wg, stats, statsLog, ch,
                   closed, sent, lateSend, lateMut, received, panicked>>
    /\ UNCHANGED <<xpc, rootExists, waitVars, calcVars>>

\* ... stats.RecordTraffic(0, uploaded); mu.Unlock() }
WRecorded(p) ==
    /\ ~panicked /\ w[p].pc = "recording"
    /\ EndMut(WorkerActor(p), p, w[p].res)
    /\ mu' = NoActor
    /\ w' = [w EXCEPT ![p].pc = "send"]
    /\ UNCHANGED <<cfgVars, ctxDone, mpc, idx, jdx, sem, wg, ch, closed, sent,
                   lateSend, received, panicked>>
    /\ UNCHANGED <<xpc, rootExists, waitVars, calcVars>>

\* results <- result
WSend(p) ==
    /\ ~panicked /\ w[p].pc = "send"
    /\ SendOn(p, w[p].res)
    /\ w' = [w EXCEPT ![p].pc = "sent"]
    /\ UNCHANGED <<cfgVars, ctxDone, mpc, idx, jdx, sem, wg, mu, inMut, stats,
                   statsLog, closed, lateMut, panicked>>
    /\ UNCHANGED <<xpc, rootExists, waitVars, calcVars>>

\* deferred: <-sem, then wg.Done()
WDone(p) ==
    /\ ~panicked /\ w[p].pc = "sent"
    /\ sem' = sem - 1
    /\ wg' = wg - 1
    /\ w' = [w EXCEPT ![p].pc = "done"]
    /\ UNCHANGED <<cfgVars, ctxDone, mpc, idx, jdx, mu, inMut, stats, statsLog,
                   ch, closed, sent, lateSend, lateMut, received, panicked>>
    /\ UNCHANGED <<xpc, rootExists, waitVars, calcVars>>

(* ---- executeScan after the range over the results ---- *)
\* os.Create(cfg.OutputFile) and encoder.Encode(report): on an error
\* os.Exit(1)
MainReport ==
    /\ ~panicked /\ xpc = "collect"
    /\ closed /\ ch = <<>>
    /\ xpc' \in {"postclean", "exited"}
    /\ UNCHANGED <<cfgVars, ctxDone, mpc, idx, jdx, sem, wg, w, mu, inMut, stats,
                   statsLog, ch, closed, sent, lateSend, lateMut, received,
                   panicked, rootExists>>
    /\ UNCHANGED <<waitVars, calcVars>>

\* cleanTempDir(cfg.TempDir): os.RemoveAll; saveStats; return
MainCleanExit ==
    /\ ~panicked /\ xpc = "postclean"
    /\ rootExists' = FALSE
    /\ xpc' = "exited"
    /\ UNCHANGED <<cfgVars, ctxDone, mpc, idx, jdx, sem, wg, w, mu, inMut, stats,
                   statsLog, ch, closed, sent, lateSend, lateMut, received, panicked>>
    /\ UNCHANGED <<waitVars, calcVars>>

SchedNext ==
    \/ Setup
    \/ DlFailNext
    \/ DlFailRecorded
    \/ DlFailSend
    \/ DlFailReturn
    \/ LoopAcquire
    \/ LoopCancel
    \/ LoopEnd
    \/ CancelNext
    \/ CancelRecorded
    \/ CancelSend
    \/ CancelEnd
    \/ WaitClose
    \/ Cancel
    \/ Receive
    \/ \E p \in Pos : WStart(p)
    \/ \E p \in Pos : WKilled(p)
    \/ \E p \in Pos : WLock(p)
    \/ \E p \in Pos : WRecorded(p)
    \/ \E p \in Pos : WSend(p)
    \/ \E p \in Pos : WDone(p)

Next ==
    \/ SchedNext
    \/ \E p \in Pos : WScan(p)

Spec == Init /\ [][Next]_vars

NextScan ==
    \/ SchedNext
    \/ MainReport
    \/ MainCleanExit
    \/ \E p \in Pos : WSetup(p)
    \/ \E p \in Pos : WMeta(p)
    \/ \E p \in Pos : WPieces(p)
    \/ \E p \in Pos : WProbe(p)
    \/ \E p \in Pos : WChildExpire(p)
    \/ \E p \in Pos : WChildDies(p)
    \/ \E p \in Pos : WChildPanic(p)
    \/ \E p \in Pos : WClassify(p)

SpecScan == InitScan /\ [][NextScan]_vars

(***************************************************************************)
(* Scans that hold a torrent of the shared client (SpecShare): the         *)
(* scheduler of Spec, the scan in two steps, before and after AddMagnet    *)
(***************************************************************************)
\* the scan from t.GotInfo() to the return of processOne: what WMeta,
\* WPieces and WProbe end it with, one result for each way of ending
WHeld(p) ==
    /\ ~panicked /\ w[p].pc = "meta"
    /\ LET h == hashes[p] IN
       \/ Return(p, Since(Result(h, "success", NoMsg, 1, TRUE), MaxElapsed))
       \/ Return(p, Since(errorResult(h, {"stall", "no progress"}), MaxElapsed))
       \/ /\ ScanCtxDone(p)
          /\ FinishCancelled(p, Since(errorResult(h, ScanCtxErr), MaxElapsed))
    /\ UNCHANGED <<wUnchanged, panicked, rootExists>>
    /\ UNCHANGED <<waitVars, calcVars>>

NextShare ==
    \/ SchedNext
    \/ \E p \in Pos : WSetup(p)
    \/ \E p \in Pos : WHeld(p)
    \/ \E p \in Pos : WClassify(p)

SpecShare == Init /\ [][NextShare]_vars

(***************************************************************************)
(* processOne seen from its byte budget (SpecBudget): the budgets handed   *)
(* to PartialDownload and RequestMorePieces, the target's name and         *)
(* extension, the probe loop and the result                                *)
(***************************************************************************)
videoExtensions == {".mkv", ".mp4", ".avi", ".m4v", ".wmv", ".ts", ".mov"}

\* formats where the moov atom may be at the end of the file
mp4Extensions == {".mp4", ".m4v", ".mov"}

\* base names of files, without the extension
Stems == {"Movie", "Show"}

\* a ScanResult with its File field set
WithFile(r, file) ==
    [f \in DOMAIN r \cup {"File"} |-> IF f = "File" THEN file ELSE r[f]]

\* if dlResult.Ext == ".mp4" || dlResult.Ext == ".m4v" { minBytes = cfg.MinBytesMP4 }
RetryBaseline(ext, minBytes, minBytesMP4) ==
    IF ext \in {".mp4", ".m4v"} THEN minBytesMP4 ELSE minBytes

Doubled_Same(minBytes) == minBytes

\* minBytes *= 2
Doubled(minBytes) == minBytes * 2

exhaustedResult_NoFile(h, file) == WithFile(Result(h, "ffprobe_failed", NoMsg, 0, FALSE), "")

\* ScanResult{InfoHash, Status: "ffprobe_failed", File: dlResult.FileName, ...}
exhaustedResult(h, file) == WithFile(Result(h, "ffprobe_failed", NoMsg, 0, FALSE), file)

InitBudget ==
    /\ SchedIdle /\ WaitIdle
    /\ pl = Off /\ fl = Off /\ rs = Off /\ MoreIdle
    /\ \E ext \in videoExtensions, stem \in Stems,
          mkv \in 1..MaxThreshold, mp4 \in 1..MaxThreshold,
          retries \in 0..MaxBudgetRetries :
         po = [pc |-> "download", Ext |-> ext, FileName |-> stem \o ext,
               MinBytesMKV |-> mkv, MinBytesMP4 |-> mp4,
               MaxFFprobeRetries |-> retries,
               minBytes |-> mkv, attempt |-> 0, probes |-> 0, ok |-> FALSE,
               requested |-> <<>>, res |-> NoResult]

\* dl.PartialDownload(ctx, infoHash, minBytes), the switch to the MP4
\* threshold, ResolveFFprobe
PODownload ==
    /\ po.pc = "download"
    /\ LET asked == [po EXCEPT !.requested = Append(@, po.minBytes)] IN
       \/ \E e \in {{"metadata timeout"}, {"stall", "no progress"}, {"max timeout"},
                    {"not found on disk"}} :
            po' = [asked EXCEPT !.pc = "done", !.res = errorResult(HashLong1, e)]
       \/ po' = [asked EXCEPT !.pc = "done",
                   !.minBytes = RetryBaseline(po.Ext, po.minBytes, po.MinBytesMP4),
                   !.res = Result(HashLong1, "error", {"ffprobe not found"}, 0, FALSE)]
       \/ po' = [asked EXCEPT !.pc = "probe",
                   !.minBytes = RetryBaseline(po.Ext, po.minBytes, po.MinBytesMP4)]
    /\ UNCHANGED <<schedVars, waitVars, moreVars, pl, fl, rs>>

\* one ExtractMediaInfo of the probe loop and what the loop does with it
POProbe ==
    /\ po.pc = "probe"
    /\ \E err \in BOOLEAN, audio \in 0..MaxAudio :
         /\ err => audio = 0
         /\ LET probed == [po EXCEPT !.probes = @ + 1, !.ok = ProbeSuccess(err, audio)] IN
            IF ProbeSuccess(err, audio)
            THEN po' = [probed EXCEPT !.pc = "done",
                          !.res = WithFile(Result(HashLong1, "success", NoMsg, audio, TRUE),
                                           po.FileName)]
            ELSE IF po.attempt < po.MaxFFprobeRetries
                 THEN po' = [probed EXCEPT !.pc = "more", !.minBytes = Doubled(@)]
                 ELSE po' = [probed EXCEPT !.pc = "done",
                               !.res = exhaustedResult(HashLong1, po.FileName)]
    /\ UNCHANGED <<schedVars, waitVars, moreVars, pl, fl, rs>>

\* dl.RequestMorePieces(ctx, infoHash, minBytes); continue
POMore ==
    /\ po.pc = "more"
    /\ LET asked == [po EXCEPT !.requested = Append(@, po.minBytes)] IN
       \/ \E e \in {{"stall", "no progress"}, {"max timeout"}, {"context canceled"}} :
            po' = [asked EXCEPT !.pc = "done", !.res = errorResult(HashLong1, e)]
       \/ po' = [asked EXCEPT !.pc = "probe", !.attempt = @ + 1]
    /\ UNCHANGED <<schedVars, waitVars, moreVars, pl, fl, rs>>

NextBudget == PODownload \/ POProbe \/ POMore

SpecBudget == InitBudget /\ [][NextBudget]_vars

(***************************************************************************)
(* The piece plan of PartialDownload and RequestMorePieces (SpecPlan)      *)
(***************************************************************************)
Min(a, b) == IF a < b THEN a ELSE b

Max(a, b) == IF a > b THEN a ELSE b

\* videoFile.BeginPieceIndex(): the piece that holds the file's first byte
BeginPieceIndex(offset, pieceLength) == offset \div pieceLength

\* videoFile.EndPieceIndex(), exclusive: the piece after the file's last byte
EndPieceIndex(offset, length, pieceLength) ==
    (offset + length + pieceLength - 1) \div pieceLength

piecesNeeded_Floor(minBytes, pieceLength) == minBytes \div pieceLength

\* startPiecesNeeded, endPiecesNeeded := (minBytes + pieceLength - 1) / pieceLength
piecesNeeded(minBytes, pieceLength) == (minBytes + pieceLength - 1) \div pieceLength

\* startEnd := fileStartPiece + startPiecesNeeded, at most fileEndPiece
startEnd(fileStartPiece, fileEndPiece, needed) ==
    Min(fileStartPiece + needed, fileEndPiece)

headPieces_Inclusive(fileStartPiece, fileEndPiece, needed) ==
    fileStartPiece .. startEnd(fileStartPiece, fileEndPiece, needed)

\* for i := fileStartPiece; i < startEnd; i++ { required[i] = true }
headPieces(fileStartPiece, fileEndPiece, needed) ==
    fileStartPiece .. (startEnd(fileStartPiece, fileEndPiece, needed) - 1)

endStart_NoClamp(fileStartPiece, fileEndPiece, needed) == fileEndPiece - needed

\* endStart := fileEndPiece - endPiecesNeeded, at least startEnd
endStart(fileStartPiece, fileEndPiece, needed) ==
    Max(fileEndPiece - needed, startEnd(fileStartPiece, fileEndPiece, needed))

tailPieces_Empty(ext, fileStartPiece, fileEndPiece, needed) == {}

\* if mp4Extensions[ext] { for i := endStart; i < fileEndPiece; i++ { required[i] = true } }
tailPieces(ext, fileStartPiece, fileEndPiece, needed) ==
    IF ext \in mp4Extensions
    THEN endStart(fileStartPiece, fileEndPiece, needed) .. (fileEndPiece - 1)
    ELSE {}

\* the pieces the two loops put into required, and required itself
PiecePlan(in, minBytes) ==
    LET fileStartPiece == BeginPieceIndex(in.offset, in.pieceLength)
        fileEndPiece == EndPieceIndex(in.offset, in.length, in.pieceLength)
        needed == piecesNeeded(minBytes, in.pieceLength)
        head == headPieces(fileStartPiece, fileEndPiece, needed)
        tail == tailPieces(in.ext, fileStartPiece, fileEndPiece, needed)
    IN [fileStartPiece |-> fileStartPiece, fileEndPiece |-> fileEndPiece,
        needed |-> needed, head |-> head, tail |-> tail,
        required |-> head \cup tail]

\* Movie.mkv: piece length 262144, 2 GiB from the start of the torrent,
\* pieces [0, 8192), budget 10 MiB.  The lengths are written in KiB: each
\* is a whole number of KiB, and the plan uses lengths only in the quotients
\* of piecesNeeded and EndPieceIndex, which the unit does not change.
MovieMkv == [pieceLength |-> 256, offset |-> 0, length |-> 2 * 1024 * 1024,
             ext |-> ".mkv", minBytes |-> 10 * 1024]

PlanInputs ==
    [pieceLength : 1..MaxPieceLen, offset : 0..MaxOffset, length : 1..MaxFileLen,
     ext : videoExtensions, minBytes : 1..MaxPlanBytes]
    \cup {MovieMkv}

InitPlan ==
    /\ SchedIdle /\ WaitIdle
    /\ po = Off /\ fl = Off /\ rs = Off /\ MoreIdle
    /\ \E in \in PlanInputs :
         pl = [pc |-> "input", in |-> in, minBytes |-> in.minBytes, calls |-> 0,
               plan |-> PiecePlan(in, 0)]

\* PartialDownload from "Calculate required pieces" to SetPriority
PlanDownload ==
    /\ pl.pc = "input"
    /\ pl' = [pl EXCEPT !.pc = "planned", !.calls = 1,
                        !.plan = PiecePlan(pl.in, pl.minBytes)]
    /\ UNCHANGED <<schedVars, waitVars, moreVars, po, fl, rs>>

\* processOne's minBytes *= 2, then RequestMorePieces up to SetPriority
PlanMore ==
    /\ pl.pc = "planned" /\ pl.calls <= MaxBudgetRetries
    /\ pl' = [pl EXCEPT !.calls = @ + 1, !.minBytes = Doubled(@),
                        !.plan = PiecePlan(pl.in, Doubled(pl.minBytes))]
    /\ UNCHANGED <<schedVars, waitVars, moreVars, po, fl, rs>>

NextPlan == PlanDownload \/ PlanMore

SpecPlan == InitPlan /\ [][NextPlan]_vars

(***************************************************************************)
(* findLargestVideo (SpecPick)                                             *)
(***************************************************************************)
\* the extensions AnalyzeFiles counts as video
videoExts == {".mkv", ".mp4", ".avi", ".m4v", ".wmv", ".ts", ".mov", ".flv",
              ".webm", ".mpg", ".mpeg", ".m2ts", ".vob", ".ogv", ".divx", ".3gp"}

\* extensions as filepath.Ext returns them, in the file's own case
RawExts == {".mkv", ".MKV", ".mp4", ".webm", ".txt"}

\* strings.ToLower on the extensions of RawExts
ToLower(ext) == IF ext = ".MKV" THEN ".mkv" ELSE ext

\* t.Files(): every list of at most n files, a file being its extension and
\* its length
FileLists(n) ==
    UNION {[1..k -> [ext : RawExts, length : 0..MaxVideoLen]] : k \in 0..n}

\* videoExtensions[strings.ToLower(filepath.Ext(f.DisplayPath()))]
isCandidate(f) == ToLower(f.ext) \in videoExtensions

\* f.Length() > bestSize
larger(length, bestSize) == length > bestSize

\* the loop of findLargestVideo over files[i..], with best (0 for nil) and
\* bestSize as they stand before files[i]
RECURSIVE largestFrom(_, _, _, _)
largestFrom(files, i, best, bestSize) ==
    IF i > Len(files) THEN best
    ELSE IF isCandidate(files[i]) /\ larger(files[i].length, bestSize)
         THEN largestFrom(files, i + 1, i, files[i].length)
         ELSE largestFrom(files, i + 1, best, bestSize)

\* the index of the file findLargestVideo returns; 0 when it returns the
\* error "no video file found in torrent"
findLargestVideo(files) == largestFrom(files, 1, 0, 0)

InitPick ==
    /\ SchedIdle /\ WaitIdle
    /\ po = Off /\ pl = Off /\ rs = Off /\ MoreIdle
    /\ \E files \in FileLists(MaxFiles) :
         fl = [pc |-> "input", files |-> files, best |-> 0, res |-> NoResult]

\* PartialDownload: findLargestVideo(t.Files()); on its error processOne
\* returns errorResult
Pick ==
    /\ fl.pc = "input"
    /\ LET best == findLargestVideo(fl.files) IN
       fl' = [fl EXCEPT !.pc = "picked", !.best = best,
                        !.res = IF best = 0
                                THEN errorResult(HashLong1, {"no video file"})
                                ELSE NoResult]
    /\ UNCHANGED <<schedVars, waitVars, moreVars, po, pl, rs>>

NextPick == Pick

SpecPick == InitPick /\ [][NextPick]_vars

(***************************************************************************)
(* Downloader.resolveFilePath (SpecResolve); the clock counts seconds      *)
(***************************************************************************)
\* for attempt := 0; attempt < 3; attempt++
ResolveAttempts == 3

\* if attempt < 2 { time.Sleep(1 * time.Second) }
ResolvePauses == 2

\* where the target is in the scratch directory: nowhere yet, at one of the
\* candidate paths, under the torrent's directory (found by the first walk),
\* elsewhere under TempDir (found by the second walk), or a directory at a
\* candidate path
Places == {"none", "candidate", "wrapped", "root", "directory"}

\* one pass of the loop body: os.Stat of the candidates, then the two walks
Lookup(place) == place \in {"candidate", "wrapped", "root"}

AttemptAllowed_OneMore(attempt) == attempt <= ResolveAttempts

AttemptAllowed(attempt) == attempt < ResolveAttempts

InitResolve ==
    /\ SchedIdle /\ WaitIdle
    /\ po = Off /\ pl = Off /\ fl = Off /\ MoreIdle
    /\ \E place \in Places, stem \in Stems, ext \in videoExtensions :
         rs = [pc |-> "lookup", place |-> place, FileName |-> stem \o ext,
               attempt |-> 0, tries |-> <<>>, clock |-> 0, pauses |-> <<>>,
               filePath |-> "", res |-> NoResult]

\* the storage backend flushes the file to disk
RSFlush ==
    /\ rs.pc \in {"lookup", "pause"} /\ rs.place = "none"
    /\ \E place \in {"candidate", "wrapped", "root"} :
         rs' = [rs EXCEPT !.place = place]
    /\ UNCHANGED <<schedVars, waitVars, moreVars, po, pl, fl>>

\* the loop body up to "if filePath != "" { break }"; after the loop the
\* error "downloaded file not found on disk", which processOne hands to
\* errorResult
RSLookup ==
    /\ rs.pc = "lookup"
    /\ LET found == Lookup(rs.place)
           tried == [rs EXCEPT !.tries = Append(@, found)]
       IN IF found
          THEN rs' = [tried EXCEPT !.pc = "found", !.filePath = rs.FileName]
          ELSE IF rs.attempt < ResolvePauses
               THEN rs' = [tried EXCEPT !.pc = "pause"]
               ELSE IF AttemptAllowed(rs.attempt + 1)
                    THEN rs' = [tried EXCEPT !.attempt = @ + 1]
                    ELSE rs' = [tried EXCEPT !.pc = "notfound",
                                  !.res = errorResult(HashLong1, {"not found on disk"})]
    /\ UNCHANGED <<schedVars, waitVars, moreVars, po, pl, fl>>

\* time.Sleep(1 * time.Second); attempt++; the loop condition
RSPause ==
    /\ rs.pc = "pause"
    /\ LET slept == [rs EXCEPT !.clock = @ + 1, !.attempt = @ + 1,
                               !.pauses = Append(@, Len(rs.tries))]
       IN IF AttemptAllowed(rs.attempt + 1)
          THEN rs' = [slept EXCEPT !.pc = "lookup"]
          ELSE rs' = [slept EXCEPT !.pc = "notfound",
                        !.res = errorResult(HashLong1, {"not found on disk"})]
    /\ UNCHANGED <<schedVars, waitVars, moreVars, po, pl, fl>>

NextResolve == RSFlush \/ RSLookup \/ RSPause

SpecResolve == InitResolve /\ [][NextResolve]_vars

(***************************************************************************)
(* Downloader.waitForPieces (SpecWait); the clock counts seconds           *)
(***************************************************************************)
InitWait ==
    /\ SchedIdle
    /\ CalcIdle
    /\ wpc = "wait"
    /\ stallTimeout \in 1..MaxStall
    /\ maxTimeout \in 1..MaxClock
    /\ isolated \in BOOLEAN
    /\ clock = 0
    /\ wctx = FALSE
    /\ piecesDone \in 0..(NumRequired - 1)
    /\ bytesRead \in 0..1
    /\ lastPieceAt = 0 /\ lastBytesAt = 0 /\ lastCompleted = 0 /\ lastBytes = 0
    /\ realPieceAt = 0 /\ realBytesAt = 0
    /\ ticked = FALSE

\* a second passes: time.NewTicker(1 * time.Second) delivers a tick
Advance ==
    /\ wpc = "wait" /\ clock < MaxClock
    /\ clock' = clock + 1
    /\ ticked' = TRUE
    /\ UNCHANGED <<wpc, stallTimeout, maxTimeout, isolated, wctx, piecesDone, bytesRead,
                   lastPieceAt, lastBytesAt, lastCompleted, lastBytes,
                   realPieceAt, realBytesAt>>
    /\ UNCHANGED <<schedVars, calcVars>>

\* the swarm: a required piece completes
PieceCompletes ==
    /\ wpc = "wait" /\ piecesDone < NumRequired
    /\ piecesDone' = piecesDone + 1
    /\ realPieceAt' = clock
    /\ UNCHANGED <<wpc, stallTimeout, maxTimeout, isolated, clock, wctx, bytesRead,
                   lastPieceAt, lastBytesAt, lastCompleted, lastBytes,
                   realBytesAt, ticked>>
    /\ UNCHANGED <<schedVars, calcVars>>

\* the swarm: stats.ConnStats.BytesReadData grows
BytesGrow ==
    /\ wpc = "wait" /\ bytesRead < MaxBytes
    /\ bytesRead' = bytesRead + 1
    /\ realBytesAt' = clock
    /\ UNCHANGED <<wpc, stallTimeout, maxTimeout, isolated, clock, wctx, piecesDone,
                   lastPieceAt, lastBytesAt, lastCompleted, lastBytes,
                   realPieceAt, ticked>>
    /\ UNCHANGED <<schedVars, calcVars>>

\* in-process the wait runs under the parent's context: it is cancelled
WaitCtxCancel ==
    /\ wpc = "wait" /\ ~wctx /\ ~isolated
    /\ wctx' = TRUE
    /\ UNCHANGED <<wpc, stallTimeout, maxTimeout, isolated, clock, piecesDone, bytesRead,
                   lastPieceAt, lastBytesAt, lastCompleted, lastBytes,
                   realPieceAt, realBytesAt, ticked>>
    /\ UNCHANGED <<schedVars, calcVars>>

\* in a worker process the wait runs under context.WithTimeout(ctx,
\* input.TimeoutSeconds) with TimeoutSeconds = MaxTimeout (ToWorkerInput);
\* that context is older than the wait by some lead (setup, metadata,
\* earlier waits)
WaitCtxExpire ==
    /\ wpc = "wait" /\ ~wctx /\ isolated
    /\ \E lead \in 0..MaxLead : clock + lead >= maxTimeout
    /\ wctx' = TRUE
    /\ UNCHANGED <<wpc, stallTimeout, maxTimeout, isolated, clock, piecesDone, bytesRead,
                   lastPieceAt, lastBytesAt, lastCompleted, lastBytes,
                   realPieceAt, realBytesAt, ticked>>
    /\ UNCHANGED <<schedVars, calcVars>>

\* case <-ctx.Done(): return ctx.Err()
OnCtxDone ==
    /\ wpc = "wait" /\ wctx
    /\ wpc' = "cancelled"
    /\ UNCHANGED <<stallTimeout, maxTimeout, isolated, clock, wctx, piecesDone, bytesRead,
                   lastPieceAt, lastBytesAt, lastCompleted, lastBytes,
                   realPieceAt, realBytesAt, ticked>>
    /\ UNCHANGED <<schedVars, calcVars>>

\* case <-deadline: deadline := time.After(d.cfg.MaxTimeout)
OnDeadline ==
    /\ wpc = "wait" /\ clock >= maxTimeout
    /\ wpc' = "timeout"
    /\ UNCHANGED <<stallTimeout, maxTimeout, isolated, clock, wctx, piecesDone, bytesRead,
                   lastPieceAt, lastBytesAt, lastCompleted, lastBytes,
                   realPieceAt, realBytesAt, ticked>>
    /\ UNCHANGED <<schedVars, calcVars>>

StallDeclared_Either(pieceStall, byteStall) == pieceStall \/ byteStall

\* if pieceStall && byteStall
StallDeclared(pieceStall, byteStall) == pieceStall /\ byteStall

\* case <-ticker.C: the body of the tick
OnTick ==
    /\ wpc = "wait" /\ ticked
    /\ ticked' = FALSE
    /\ LET completed == piecesDone
           now == clock
           bytesNow == bytesRead
           newPieceAt == IF completed > lastCompleted THEN now ELSE lastPieceAt
           newBytesAt == IF bytesNow > lastBytes THEN now ELSE lastBytesAt
           pieceStall == now - newPieceAt > stallTimeout
           byteStall == now - newBytesAt > stallTimeout
       IN IF completed = NumRequired
          THEN /\ wpc' = "ok"
               /\ UNCHANGED <<lastPieceAt, lastBytesAt, lastCompleted, lastBytes>>
          ELSE /\ lastPieceAt' = newPieceAt
               /\ lastCompleted' = IF completed > lastCompleted THEN completed ELSE lastCompleted
               /\ lastBytesAt' = newBytesAt
               /\ lastBytes' = IF bytesNow > lastBytes THEN bytesNow ELSE lastBytes
               /\ wpc' = IF StallDeclared(pieceStall, byteStall) THEN "stall" ELSE "wait"
    /\ UNCHANGED <<stallTimeout, maxTimeout, isolated, clock, wctx, piecesDone, bytesRead,
                   realPieceAt, realBytesAt>>
    /\ UNCHANGED <<schedVars, calcVars>>

NextWait ==
    \/ Advance
    \/ PieceCompletes
    \/ BytesGrow
    \/ WaitCtxCancel
    \/ WaitCtxExpire
    \/ OnCtxDone
    \/ OnDeadline
    \/ OnTick

SpecWait == InitWait /\ [][NextWait]_vars

\* the error waitForPieces returned
WaitError ==
    IF wpc = "timeout" THEN {"max timeout"}
    ELSE IF wpc = "stall" THEN {"stall", "no progress"}
    ELSE IF isolated THEN {"context deadline exceeded"}
    ELSE {"context canceled"}

\* processOne: errorResult(infoHash, err, start) of that error
WaitResult == errorResult(HashLong1, WaitError)

(***************************************************************************)
(* NormalizeLang, ComputeLanguages and ApplyLangDetection (SpecLang); a    *)
(* string is the tuple of its bytes, so that sort.Strings has an order     *)
(***************************************************************************)
\* "", "und", "UND", "eng", "ENG", "en", "spa", "fra", "tlh", "unknown"
EmptyTag == <<>>

UndTag == <<117, 110, 100>>

RawTags == {EmptyTag, UndTag, <<85, 78, 68>>, <<101, 110, 103>>, <<69, 78, 71>>, <<101, 110>>, <<115, 112, 97>>, <<102, 114, 97>>, <<116, 108, 104>>, <<117, 110, 107, 110, 111, 119, 110>>}

\* "multi" and "dual"
MultiTag == <<109, 117, 108, 116, 105>>

DualTag == <<100, 117, 97, 108>>

\* "en", "es", "und", ""
ExistingTags == {MultiTag, DualTag, <<101, 110>>, <<101, 115>>, UndTag, EmptyTag}

\* var langNormalize, as pairs <<code, ISO 639-1 code>>
langNormalize == {
    <<<<101, 110, 103>>, <<101, 110>>>>,
    <<<<101, 110>>, <<101, 110>>>>,
    <<<<115, 112, 97>>, <<101, 115>>>>,
    <<<<101, 115>>, <<101, 115>>>>,
    <<<<102, 114, 101>>, <<102, 114>>>>,
    <<<<102, 114, 97>>, <<102, 114>>>>,
    <<<<102, 114>>, <<102, 114>>>>,
    <<<<103, 101, 114>>, <<100, 101>>>>,
    <<<<100, 101, 117>>, <<100, 101>>>>,
    <<<<100, 101>>, <<100, 101>>>>,
    <<<<105, 116, 97>>, <<105, 116>>>>,
    <<<<105, 116>>, <<105, 116>>>>,
    <<<<112, 111, 114>>, <<112, 116>>>>,
    <<<<112, 116>>, <<112, 116>>>>,
    <<<<114, 117, 115>>, <<114, 117>>>>,
    <<<<114, 117>>, <<114, 117>>>>,
    <<<<106, 112, 110>>, <<106, 97>>>>,
    <<<<106, 97>>, <<106, 97>>>>,
    <<<<107, 111, 114>>, <<107, 111>>>>,
    <<<<107, 111>>, <<107, 111>>>>,
    <<<<99, 104, 105>>, <<122, 104>>>>,
    <<<<122, 104, 111>>, <<122, 104>>>>,
    <<<<122, 104>>, <<122, 104>>>>,
    <<<<104, 105, 110>>, <<104, 105>>>>,
    <<<<104, 105>>, <<104, 105>>>>,
    <<<<97, 114, 97>>, <<97, 114>>>>,
    <<<<97, 114>>, <<97, 114>>>>,
    <<<<100, 117, 116>>, <<110, 108>>>>,
    <<<<110, 108, 100>>, <<110, 108>>>>,
    <<<<110, 108>>, <<110, 108>>>>,
    <<<<112, 111, 108>>, <<112, 108>>>>,
    <<<<112, 108>>, <<112, 108>>>>,
    <<<<116, 117, 114>>, <<116, 114>>>>,
    <<<<116, 114>>, <<116, 114>>>>,
    <<<<115, 119, 101>>, <<115, 118>>>>,
    <<<<115, 118>>, <<115, 118>>>>,
    <<<<110, 111, 114>>, <<110, 111>>>>,
    <<<<110, 111, 98>>, <<110, 111>>>>,
    <<<<110, 110, 111>>, <<110, 111>>>>,
    <<<<110, 111>>, <<110, 111>>>>,
    <<<<100, 97, 110>>, <<100, 97>>>>,
    <<<<100, 97>>, <<100, 97>>>>,
    <<<<102, 105, 110>>, <<102, 105>>>>,
    <<<<102, 105>>, <<102, 105>>>>,
    <<<<99, 122, 101>>, <<99, 115>>>>,
    <<<<99, 101, 115>>, <<99, 115>>>>,
    <<<<99, 115>>, <<99, 115>>>>,
    <<<<104, 117, 110>>, <<104, 117>>>>,
    <<<<104, 117>>, <<104, 117>>>>,
    <<<<114, 117, 109>>, <<114, 111>>>>,
    <<<<114, 111, 110>>, <<114, 111>>>>,
    <<<<114, 111>>, <<114, 111>>>>,
    <<<<103, 114, 101>>, <<101, 108>>>>,
    <<<<101, 108, 108>>, <<101, 108>>>>,
    <<<<101, 108>>, <<101, 108>>>>,
    <<<<116, 104, 97>>, <<116, 104>>>>,
    <<<<116, 104>>, <<116, 104>>>>,
    <<<<118, 105, 101>>, <<118, 105>>>>,
    <<<<118, 105>>, <<118, 105>>>>,
    <<<<105, 110, 100>>, <<105, 100>>>>,
    <<<<105, 100>>, <<105, 100>>>>,
    <<<<104, 101, 98>>, <<104, 101>>>>,
    <<<<104, 101>>, <<104, 101>>>>,
    <<<<117, 107, 114>>, <<117, 107>>>>,
    <<<<117, 107>>, <<117, 107>>>>,
    <<<<99, 97, 116>>, <<99, 97>>>>,
    <<<<99, 97>>, <<99, 97>>>>,
    <<<<98, 117, 108>>, <<98, 103>>>>,
    <<<<98, 103>>, <<98, 103>>>>,
    <<<<104, 114, 118>>, <<104, 114>>>>,
    <<<<104, 114>>, <<104, 114>>>>,
    <<<<115, 114, 112>>, <<115, 114>>>>,
    <<<<115, 114>>, <<115, 114>>>>,
    <<<<115, 108, 118>>, <<115, 108>>>>,
    <<<<115, 108>>, <<115, 108>>>>,
    <<<<108, 105, 116>>, <<108, 116>>>>,
    <<<<108, 116>>, <<108, 116>>>>,
    <<<<108, 97, 118>>, <<108, 118>>>>,
    <<<<108, 118>>, <<108, 118>>>>,
    <<<<101, 115, 116>>, <<101, 116>>>>,
    <<<<101, 116>>, <<101, 116>>>> }

\* strings.ToLower on one byte and on a string
lowerByte(b) == IF b >= 65 /\ b <= 90 THEN b + 32 ELSE b

LowerTag(s) == [i \in 1..Len(s) |-> lowerByte(s[i])]
\* NormalizeLang
NormalizeLang(raw) ==
    IF raw = EmptyTag THEN UndTag
    ELSE LET lower == LowerTag(raw)
             hits == {e \in langNormalize : e[1] = lower}
         IN  IF hits # {} THEN (CHOOSE e \in hits : TRUE)[2] ELSE lower

\* the order of Go strings: byte by byte, a proper prefix first
StringLess(a, b) ==
    \E i \in 1..(Min(Len(a), Len(b)) + 1) :
        /\ \A j \in 1..(i - 1) : a[j] = b[j]
        /\ \/ i > Len(a) /\ i <= Len(b)
           \/ i <= Len(a) /\ i <= Len(b) /\ a[i] < b[i]

\* sort.Strings over the keys of a map
RECURSIVE sortStrings(_)
sortStrings(S) ==
    IF S = {} THEN <<>>
    ELSE LET first == CHOOSE x \in S : \A y \in S \ {x} : StringLess(x, y)
         IN  <<first>> \o sortStrings(S \ {first})

SeqsUpTo(S, n) == UNION {[1..k -> S] : k \in 0..n}

Elems(s) == {s[i] : i \in 1..Len(s)}

\* a nil slice, written as the list of the one string that is no tag;
\* ranging over it visits nothing
NilList == <<<<0>>>>

Items(list) == IF list = NilList THEN {} ELSE Elems(list)

ambiguous == {MultiTag, DualTag}

\* the first loop of ComputeLanguages
detected_KeepUnd(audio) ==
    {audio[i] : i \in {j \in 1..Len(audio) : audio[j] # EmptyTag /\ Len(audio[j]) <= 3}}

detected(audio) ==
    {audio[i] : i \in {j \in 1..Len(audio) :
                         audio[j] # EmptyTag /\ audio[j] # UndTag /\ Len(audio[j]) <= 3}}

\* the if/else that builds merged
merged_NoFallback(existing, audio) ==
    LET existingSet == Items(existing)
    IN  IF existingSet \subseteq ambiguous /\ existingSet # {} /\ detected(audio) # {}
        THEN detected(audio)
        ELSE (existingSet \ ambiguous) \cup detected(audio)

merged(existing, audio) ==
    LET existingSet == Items(existing)
        allAmbiguous == \A l \in existingSet : l \in ambiguous
    IN  IF allAmbiguous /\ Cardinality(existingSet) > 0
        THEN IF Cardinality(detected(audio)) > 0 THEN detected(audio) ELSE existingSet
        ELSE LET union == (existingSet \ ambiguous) \cup detected(audio)
             IN  IF Cardinality(union) = 0 THEN existingSet ELSE union

ComputeLanguages(existing, audio) == sortStrings(merged(existing, audio))

\* isUnknownLang: "und", "", "undefined", "unknown" in any case; the
\* universe of tags holds the first, the second and the last
isUnknownLang(lang) ==
    LowerTag(lang) \in {UndTag, EmptyTag, <<117, 110, 107, 110, 111, 119, 110>>}

ShouldDetectLanguage(status, audio) ==
    /\ status = "success"
    /\ Len(audio) # 0
    /\ \A i \in 1..Len(audio) : isUnknownLang(audio[i])

undefinedTrackIndices(audio) == {i \in 1..Len(audio) : isUnknownLang(audio[i])}

\* either a probe's raw language tags, on their way through a scan, or an
\* existing list and the tracks of a probe, for one call of ComputeLanguages
InitLang ==
    /\ SchedIdle /\ WaitIdle
    /\ po = Off /\ pl = Off /\ fl = Off /\ rs = Off
    /\ sr = Off /\ er = Off /\ tw = Off
    /\ \/ \E raw \in SeqsUpTo(RawTags, MaxTracks) :
            lg = [pc |-> "raw", raw |-> raw, existing |-> NilList, audio |-> <<>>,
                  status |-> "", languages |-> NilList, detections |-> <<>>]
       \/ \E raw \in SeqsUpTo(RawTags, MaxTracks),
             existing \in SeqsUpTo(ExistingTags, MaxExisting) \cup {NilList} :
            lg = [pc |-> "call", raw |-> raw, existing |-> existing,
                  audio |-> [i \in 1..Len(raw) |-> NormalizeLang(raw[i])],
                  status |-> "", languages |-> NilList, detections |-> <<>>]

\* ExtractMediaInfo: Lang: NormalizeLang(langRaw) for every audio stream
LangProbe ==
    /\ lg.pc = "raw"
    /\ lg' = [lg EXCEPT !.pc = "probed",
                        !.audio = [i \in 1..Len(lg.raw) |-> NormalizeLang(lg.raw[i])]]
    /\ UNCHANGED <<schedVars, waitVars, po, pl, fl, rs, sr, er, tw>>

\* processOne after a probe: success needs an audio track; any other result
\* leaves Languages nil
LangSuccess ==
    /\ lg.pc = "probed"
    /\ IF Len(lg.audio) > 0
       THEN lg' = [lg EXCEPT !.pc = "success", !.status = "success",
                             !.languages = ComputeLanguages(NilList, lg.audio)]
       ELSE lg' = [lg EXCEPT !.pc = "emitted", !.status = "ffprobe_failed"]
    /\ UNCHANGED <<schedVars, waitVars, po, pl, fl, rs, sr, er, tw>>

\* ApplyLangDetection, then the return of processOne; a track whose detection
\* fails, finds nothing or is beyond the cap keeps its tag (EmptyTag below)
LangDetect ==
    /\ lg.pc = "success"
    /\ IF ShouldDetectLanguage(lg.status, lg.audio)
       THEN \E found \in [undefinedTrackIndices(lg.audio) -> RawTags] :
              LET audio == [i \in 1..Len(lg.audio) |->
                              IF i \in DOMAIN found /\ found[i] # EmptyTag
                              THEN NormalizeLang(found[i]) ELSE lg.audio[i]]
              IN  lg' = [lg EXCEPT !.pc = "emitted", !.audio = audio,
                                   !.detections = found,
                                   !.languages = ComputeLanguages(NilList, audio)]
       ELSE lg' = [lg EXCEPT !.pc = "emitted"]
    /\ UNCHANGED <<schedVars, waitVars, po, pl, fl, rs, sr, er, tw>>

\* one call ComputeLanguages(existing, audioTracks)
LangMerge ==
    /\ lg.pc = "call"
    /\ lg' = [lg EXCEPT !.pc = "returned",
                        !.languages = ComputeLanguages(lg.existing, lg.audio)]
    /\ UNCHANGED <<schedVars, waitVars, po, pl, fl, rs, sr, er, tw>>

NextLang == LangProbe \/ LangSuccess \/ LangDetect \/ LangMerge

SpecLang == InitLang /\ [][NextLang]_vars

(***************************************************************************)
(* Stats.RecordResult (SpecStats): the same calls made on two copies of    *)
(* the stats, the second copy getting the first two results in the other   *)
(* order; the clock counts hours                                           *)
(***************************************************************************)
\* a Go map from strings to counters; a missing key reads as zero
EmptyMap == <<>>

Count(m, k) == IF k \in DOMAIN m THEN m[k] ELSE 0

\* m[k]++
Incr_Twice(m, k) == IF k \in DOMAIN m THEN [m EXCEPT ![k] = @ + 2] ELSE m @@ (k :> 2)

Incr(m, k) == IF k \in DOMAIN m THEN [m EXCEPT ![k] = @ + 1] ELSE m @@ (k :> 1)

SumOf(m) == LET RECURSIVE sum(_)
                sum(K) == IF K = {} THEN 0
                          ELSE LET k == CHOOSE x \in K : TRUE IN m[k] + sum(K \ {k})
            IN  sum(DOMAIN m)

\* NewStats
NewStats == [StartedAt |-> "", DownloadBytes |-> 0,
             TotalScanned |-> 0, TotalSuccess |-> 0, TotalFailed |-> 0,
             FailuresByType |-> EmptyMap, TotalElapsedMs |-> 0,
             ResolutionDist |-> EmptyMap, CodecDist |-> EmptyMap, HDRDist |-> EmptyMap,
             AudioCodecDist |-> EmptyMap, LanguageDist |-> EmptyMap,
             HourlyStats |-> <<>>, DailyStats |-> <<>>]

\* stats that LoadStats read from an earlier session
LoadedStats == [NewStats EXCEPT !.StartedAt = "earlier", !.DownloadBytes = 1,
                                !.TotalScanned = 2, !.TotalSuccess = 1, !.TotalFailed = 1,
                                !.FailuresByType = ("timeout" :> 1),
                                !.TotalElapsedMs = 1,
                                !.ResolutionDist = ("1080p" :> 1),
                                !.HDRDist = ("SDR" :> 1)]

\* resolutionCategory
resolutionCategory(width, height) ==
    LET h == IF width > height THEN height ELSE width
    IN  IF h >= 2160 THEN "2160p"
        ELSE IF h >= 1080 THEN "1080p"
        ELSE IF h >= 720 THEN "720p"
        ELSE IF h >= 480 THEN "480p"
        ELSE IF h > 0 THEN "other"
        ELSE "unknown"

\* strings.ToLower on the codec names of StatResults
lowerCodec(codec) ==
    IF codec = "HEVC" THEN "hevc" ELSE IF codec = "AAC" THEN "aac" ELSE codec

NoVideo == [nil |-> TRUE]

RECURSIVE incrAll(_, _)
incrAll(m, keys) ==
    IF keys = <<>> THEN m ELSE incrAll(Incr(m, Head(keys)), Tail(keys))

SelectKeys(keys, skip) ==
    LET RECURSIVE sel(_)
        sel(s) == IF s = <<>> THEN <<>>
                  ELSE IF Head(s) \in skip THEN sel(Tail(s))
                  ELSE <<Head(s)>> \o sel(Tail(s))
    IN  sel(keys)

\* Stats.recordQuality
recordQuality(s, result) ==
    LET v == result.Video
        s1 == IF v # NoVideo
              THEN [s EXCEPT
                      !.ResolutionDist = Incr(@, resolutionCategory(v.Width, v.Height)),
                      !.CodecDist = IF lowerCodec(v.Codec) # ""
                                    THEN Incr(@, lowerCodec(v.Codec)) ELSE @,
                      !.HDRDist = Incr(@, IF v.HDR = "" THEN "SDR" ELSE v.HDR)]
              ELSE s
    IN  [s1 EXCEPT
           !.AudioCodecDist =
               incrAll(@, SelectKeys([i \in 1..Len(result.Audio) |->
                                        lowerCodec(result.Audio[i])], {""})),
           !.LanguageDist = incrAll(@, SelectKeys(result.Languages, {"", "und"}))]

\* hourlyIndex and dailyIndex: the last bucket with the key, or a new one
bucketIndex(buckets, key) ==
    IF \E i \in 1..Len(buckets) : buckets[i].Key = key
    THEN CHOOSE i \in 1..Len(buckets) :
           /\ buckets[i].Key = key
           /\ \A j \in (i + 1)..Len(buckets) : buckets[j].Key # key
    ELSE Len(buckets) + 1

\* updateHourlyBucket and updateDailyBucket
updateBucket(buckets, key, success, downloadedBytes) ==
    LET at == bucketIndex(buckets, key)
        all == IF at > Len(buckets)
               THEN Append(buckets, [Key |-> key, Scanned |-> 0, Success |-> 0,
                                     Failed |-> 0, DownloadBytes |-> 0])
               ELSE buckets
    IN  [all EXCEPT ![at] =
           [@ EXCEPT !.Scanned = @ + 1,
                     !.DownloadBytes = @ + downloadedBytes,
                     !.Success = IF success THEN @ + 1 ELSE @,
                     !.Failed = IF success THEN @ ELSE @ + 1]]

HoursPerDay == 24

\* Stats.RecordResult at the hour now
StatsRecord_LastStatus(s, result, downloadedBytes, now) ==
    [s EXCEPT !.TotalScanned = @ + 1,
              !.TotalSuccess = IF result.Status = "success" THEN @ + 1 ELSE @,
              !.TotalFailed = IF result.Status = "success" THEN @ ELSE @ + 1,
              !.FailuresByType = IF result.Status = "success" THEN @
                                 ELSE (result.Status :> 1),
              !.DownloadBytes = @ + downloadedBytes]

StatsRecord(s, result, downloadedBytes, now) ==
    LET isSuccess == result.Status = "success"
        s1 == [s EXCEPT !.StartedAt = IF @ = "" THEN ToString(now) ELSE @,
                        !.TotalScanned = @ + 1,
                        !.TotalElapsedMs = @ + result.ElapsedMs,
                        !.DownloadBytes = @ + downloadedBytes]
        s2 == IF isSuccess
              THEN recordQuality([s1 EXCEPT !.TotalSuccess = @ + 1], result)
              ELSE [s1 EXCEPT !.TotalFailed = @ + 1,
                              !.FailuresByType = Incr(@, result.Status)]
    IN  [s2 EXCEPT
           !.HourlyStats = updateBucket(@, now, isSuccess, downloadedBytes),
           !.DailyStats = updateBucket(@, now \div HoursPerDay, isSuccess,
                                       downloadedBytes)]

StatResult(status, elapsed, video, audio, languages) ==
    [Status |-> status, ElapsedMs |-> elapsed, Video |-> video, Audio |-> audio,
     Languages |-> languages]

\* results of the kinds a scan emits, their audio given by its codecs
StatResults ==
    { StatResult("success", 1, [Width |-> 1920, Height |-> 1080, Codec |-> "HEVC",
                                HDR |-> "HDR10"], <<"aac", "ac3">>, <<"en", "es">>),
      StatResult("success", 0, [Width |-> 720, Height |-> 1280, Codec |-> "",
                                HDR |-> ""], <<"AAC", "">>, <<"en">>),
      StatResult("success", 1, NoVideo, <<"aac">>, <<>>),
      StatResult("stall_metadata", 1, NoVideo, <<>>, <<>>),
      StatResult("timeout", 0, NoVideo, <<>>, <<>>),
      StatResult("cancelled", 0, NoVideo, <<>>, <<>>) }

\* a call: the result, the bytes downloaded for it, the hour it is made in
StatCalls == [result : StatResults, bytes : 0..1, now : 23..24]

\* the first two calls with their results and bytes exchanged
Swapped(calls) ==
    IF Len(calls) < 2 THEN calls
    ELSE [i \in 1..Len(calls) |->
            IF i = 1 THEN [calls[2] EXCEPT !.now = calls[1].now]
            ELSE IF i = 2 THEN [calls[1] EXCEPT !.now = calls[2].now]
            ELSE calls[i]]

InitStats ==
    /\ SchedIdle /\ WaitIdle
    /\ po = Off /\ pl = Off /\ fl = Off /\ rs = Off
    /\ lg = Off /\ er = Off /\ tw = Off
    /\ \E start \in {NewStats, LoadedStats}, calls \in SeqsUpTo(StatCalls, MaxRecords) :
         /\ \A i \in 1..(Len(calls) - 1) : calls[i].now <= calls[i + 1].now
         /\ sr = [pc |-> "recording", start |-> start, calls |-> calls, done |-> 0,
                  a |-> start, b |-> start]

\* the next RecordResult call, on both copies
StatsRecordNext ==
    /\ sr.pc = "recording" /\ sr.done < Len(sr.calls)
    /\ LET c == sr.calls[sr.done + 1]
           d == Swapped(sr.calls)[sr.done + 1]
       IN  sr' = [sr EXCEPT !.done = @ + 1,
                            !.a = StatsRecord(@, c.result, c.bytes, c.now),
                            !.b = StatsRecord(@, d.result, d.bytes, d.now)]
    /\ UNCHANGED <<schedVars, waitVars, po, pl, fl, rs, lg, er, tw>>

NextStats == StatsRecordNext

SpecStats == InitStats /\ [][NextStats]_vars

(***************************************************************************)
(* errorResult on the error of a fetch (SpecError)                         *)
(***************************************************************************)
\* the phrases errorResult looks for, and two it does not know
KnownPhrases == {"metadata timeout", "stall", "max timeout", "no video file",
                 "not found on disk"}

OtherPhrases == {"context canceled", "add magnet"}

\* the messages with at most MaxPhrases of the phrases
ErrorMessages ==
    {m \in SUBSET (KnownPhrases \cup OtherPhrases) : Cardinality(m) <= MaxPhrases}

InitError ==
    /\ SchedIdle /\ WaitIdle
    /\ po = Off /\ pl = Off /\ fl = Off /\ rs = Off
    /\ lg = Off /\ sr = Off /\ tw = Off
    /\ \E h \in HashUniverse, errMsg \in ErrorMessages :
         er = [pc |-> "failed", infoHash |-> h, errMsg |-> errMsg, res |-> NoResult]

\* processOne: return errorResult(infoHash, err, start)
ErrorReturn ==
    /\ er.pc = "failed"
    /\ \E ms \in 0..MaxElapsed :
         er' = [er EXCEPT !.pc = "returned",
                          !.res = Since(errorResult(er.infoHash, er.errMsg), ms)]
    /\ UNCHANGED <<schedVars, waitVars, po, pl, fl, rs, lg, sr, tw>>

NextError == ErrorReturn

SpecError == InitError /\ [][NextError]_vars

(***************************************************************************)
(* One scan on one clock (SpecTotal): the metadata wait of PartialDownload *)
(* and the piece waits of the initial fetch and of every retry; the clock  *)
(* counts seconds from the start of processOne                             *)
(***************************************************************************)
\* the context processOne runs under is done: in a worker process the
\* context.WithTimeout of RunWorker, TimeoutSeconds = MaxTimeout after the
\* start; in the in-process fallback the parent's context
TotalCtxDone ==
    IF tw.isolated THEN tw.clock >= tw.MaxTimeout ELSE tw.ctxDone

TotalCtxErr ==
    IF tw.isolated THEN {"context deadline exceeded"} ELSE {"context canceled"}

\* metaCtx, the context.WithTimeout(ctx, d.cfg.StallTimeout) made at the
\* start, is done
MetaCtxDone == tw.clock >= tw.StallTimeout \/ TotalCtxDone

\* time.After(d.cfg.MaxTimeout) of the running waitForPieces has fired
DeadlineFired == tw.clock - tw.waitStart >= tw.MaxTimeout

\* a select that has a ready case does not sleep
SelectReady ==
    \/ tw.pc = "meta" /\ MetaCtxDone
    \/ tw.pc = "wait" /\ (DeadlineFired \/ TotalCtxDone)

InitTotal ==
    /\ SchedIdle /\ WaitIdle
    /\ po = Off /\ pl = Off /\ fl = Off /\ rs = Off
    /\ lg = Off /\ sr = Off /\ er = Off
    /\ \E iso \in BOOLEAN, stall \in 1..MaxStall, max \in 1..MaxScanTimeout,
          retries \in 0..MaxRetries :
         tw = [pc |-> "meta", isolated |-> iso, StallTimeout |-> stall,
               MaxTimeout |-> max, MaxFFprobeRetries |-> retries, clock |-> 0,
               ctxDone |-> FALSE, metaEnd |-> 0, waitStart |-> 0, waited |-> 0,
               attempt |-> 0, res |-> NoResult]

\* a second passes; a scan in waitForPieces has waited one second more
TotalTick ==
    /\ tw.pc # "done" /\ tw.clock < MaxScanClock
    /\ ~SelectReady
    /\ tw' = [tw EXCEPT !.clock = @ + 1,
                        !.waited = IF tw.pc = "wait" THEN @ + 1 ELSE @]
    /\ UNCHANGED <<schedVars, waitVars, po, pl, fl, rs, lg, sr, er>>

\* SIGINT or SIGTERM to the parent of an in-process scan
TotalCancel ==
    /\ tw.pc # "done" /\ ~tw.isolated /\ ~tw.ctxDone
    /\ tw' = [tw EXCEPT !.ctxDone = TRUE]
    /\ UNCHANGED <<schedVars, waitVars, po, pl, fl, rs, lg, sr, er>>

\* case <-t.GotInfo(), then the plan and waitForPieces
TotalGotInfo ==
    /\ tw.pc = "meta"
    /\ tw' = [tw EXCEPT !.pc = "wait", !.metaEnd = tw.clock, !.waitStart = tw.clock]
    /\ UNCHANGED <<schedVars, waitVars, po, pl, fl, rs, lg, sr, er>>

\* case <-metaCtx.Done(): return "metadata timeout for ..."
TotalMetaDone ==
    /\ tw.pc = "meta" /\ MetaCtxDone
    /\ tw' = [tw EXCEPT !.pc = "done", !.metaEnd = tw.clock,
                        !.res = Since(errorResult(HashLong1, {"metadata timeout"}), 0)]
    /\ UNCHANGED <<schedVars, waitVars, po, pl, fl, rs, lg, sr, er>>

\* waitForPieces returns: on a tick after its start with all pieces complete
\* or with a stall, by its deadline, or by ctx.Done()
TotalWaitEnds ==
    /\ tw.pc = "wait"
    /\ \/ /\ tw.clock > tw.waitStart
          /\ tw' = [tw EXCEPT !.pc = "probe"]
       \/ /\ tw.clock - tw.waitStart > tw.StallTimeout
          /\ tw' = [tw EXCEPT !.pc = "done",
                      !.res = Since(errorResult(HashLong1, {"stall", "no progress"}), 0)]
       \/ /\ DeadlineFired
          /\ tw' = [tw EXCEPT !.pc = "done",
                      !.res = Since(errorResult(HashLong1, {"max timeout"}), 0)]
       \/ /\ TotalCtxDone
          /\ tw' = [tw EXCEPT !.pc = "done",
                      !.res = Since(errorResult(HashLong1, TotalCtxErr), 0)]
    /\ UNCHANGED <<schedVars, waitVars, po, pl, fl, rs, lg, sr, er>>

\* one probe attempt of processOne: success, RequestMorePieces, or the
\* retries are exhausted
TotalProbe ==
    /\ tw.pc = "probe"
    /\ \/ tw' = [tw EXCEPT !.pc = "done",
                   !.res = Result(HashLong1, "success", NoMsg, 1, TRUE)]
       \/ IF tw.attempt < tw.MaxFFprobeRetries
          THEN tw' = [tw EXCEPT !.pc = "wait", !.attempt = @ + 1,
                                !.waitStart = tw.clock]
          ELSE tw' = [tw EXCEPT !.pc = "done",
                        !.res = Result(HashLong1, "ffprobe_failed", NoMsg, 0, FALSE)]
    /\ UNCHANGED <<schedVars, waitVars, po, pl, fl, rs, lg, sr, er>>

NextTotal ==
    \/ TotalTick
    \/ TotalCancel
    \/ TotalGotInfo
    \/ TotalMetaDone
    \/ TotalWaitEnds
    \/ TotalProbe

SpecTotal == InitTotal /\ [][NextTotal]_vars

(***************************************************************************)
(* Properties of the scheduler                                             *)
(***************************************************************************)
Emitted(p) == Len(sent[p]) >= 1

\* tasks that hold a permit: started by the dispatch loop, not yet released
Running == {p \in Pos : w[p].pc \notin {"idle", "done"}}

\* position p got its result from the cancellation branch of the dispatch loop
CancelEmitted(p) == ~dlErr /\ w[p].pc = "idle" /\ Emitted(p)

\* C1: every submitted hash gets exactly one result on the channel before the
\* channel is closed: at no time two, at the close not zero, and nothing
\* after the close.
C1_ExactlyOneResult ==
    /\ \A p \in Pos : Len(sent[p]) <= 1
    /\ \A p \in Pos : Emitted(p) => sent[p][1].InfoHash = hashes[p]
    /\ closed => \A p \in Pos : Len(sent[p]) = 1
    /\ ~lateSend

\* a closed channel after a run in which one task finished and the
\* cancellation branch emitted for another hash
C1_Witness ==
    /\ closed /\ N = MaxHashes /\ N >= 2
    /\ \E p \in Pos : w[p].pc = "done"
    /\ \E q \in Pos : CancelEmitted(q)

\* C2: the tasks that hold a permit are never more than cfg.Concurrency.
C2_BoundedWorkers == Cardinality(Running) <= concurrency /\ sem = Cardinality(Running)

\* all permits taken while the dispatch loop still has a hash to start
C2_Witness ==
    /\ concurrency >= 1 /\ Cardinality(Running) = concurrency
    /\ mpc = "loop" /\ idx <= N

\* C3: after cancellation the channel is closed only when every started task
\* has terminated and emitted its result, and no send follows the close.
C3_CloseAfterDrain ==
    /\ (closed /\ ctxDone) =>
           \A p \in Pos : /\ w[p].pc \in {"idle", "done"}
                          /\ w[p].pc = "done" => Emitted(p)
    /\ ~lateSend

\* closed after a cancellation that a running scan observed
C3_Witness ==
    /\ closed /\ ctxDone
    /\ \E p \in Pos : w[p].pc = "done" /\ w[p].sawCancel
    /\ \E q \in Pos : CancelEmitted(q)

C5_Original ==
    \A p \in Pos : (Emitted(p) /\ w[p].sawCancel) => sent[p][1].Status = "cancelled"

\* C6 as stated: no per-hash failure, a malformed hash included, stops the
\* parent process.
C6_Original == ~panicked

\* C7: with a stats record, RecordResult is applied exactly once to every
\* emitted result, and to that very result.
C7_RecordedOnce ==
    hasStats =>
        \A p \in Pos : /\ Len(statsLog[p]) <= 1
                       /\ Emitted(p) => statsLog[p] = sent[p]

\* a successful result and a cancelled one, both recorded and emitted
C7_Witness ==
    /\ hasStats /\ closed
    /\ \E p \in Pos : Emitted(p) /\ sent[p][1].Status = "success"
    /\ \E q \in Pos : CancelEmitted(q)
    /\ stats.TotalScanned = N

\* C8: stats mutations never overlap and none happens after the channel is
\* closed.
C8_SerializedStats ==
    /\ Cardinality(inMut) <= 1
    /\ ~lateMut
    /\ closed => inMut = {}

\* one task is inside RecordResult while another has its result and waits
\* for the mutex
C8_Witness ==
    \E p, q \in Pos : p # q /\ w[p].pc = "recording" /\ w[q].pc = "result"

\* C9 as stated: a successful result has an audio track and a video_info.
C9_Original ==
    \A p \in Pos : (Emitted(p) /\ sent[p][1].Status = "success") =>
        (sent[p][1].Audio >= 1 /\ sent[p][1].Video)

\* C9 amended: a successful result has at least one audio track (its
\* video_info is null when the probe reported no video stream).
C9_SuccessHasAudio ==
    \A p \in Pos : (Emitted(p) /\ sent[p][1].Status = "success") =>
        sent[p][1].Audio >= 1

C9_Witness ==
    \E p \in Pos : Emitted(p) /\ sent[p][1].Status = "success" /\ ~sent[p][1].Video

(***************************************************************************)
(* Properties of the piece wait                                            *)
(***************************************************************************)
\* C10: a stall is declared only at an instant when more than stallTimeout
\* has passed both since a required piece last completed and since the bytes
\* read last grew; so while bytes keep growing within every stallTimeout
\* window no stall is declared, even when no piece completes.
C10_StallNeedsBothClocks ==
    wpc = "stall" =>
        /\ clock - realPieceAt > stallTimeout
        /\ clock - realBytesAt > stallTimeout

\* a stall that the byte clock delayed: bytes grew after the piece clock had
\* run out, no piece ever completed
C10_Witness ==
    /\ wpc = "stall"
    /\ piecesDone = 0
    /\ realBytesAt > stallTimeout
    /\ clock - realBytesAt = stallTimeout + 1

\* C11 as stated: a wait whose pieces are incomplete when max_timeout has
\* elapsed, with no stall declared and no cancellation by the user, ends the
\* scan with status timeout, in a worker process as well as in-process.
C11_Original ==
    (/\ wpc \in {"timeout", "cancelled"}
     /\ clock >= maxTimeout
     /\ piecesDone < NumRequired
     /\ (wctx => isolated))
        => WaitResult.Status = "timeout"

(***************************************************************************)
(* Properties of the worker process and of its parent                      *)
(***************************************************************************)
\* the worker process of task p ended by the signal st.n
DiedBySignal(p) == w[p].exit.kind = "signal"

\* C12: a worker that a signal terminated is emitted as worker_crashed with
\* elapsed_ms 0 and an error that names the signal: SIGBUS, SIGSEGV, SIGKILL,
\* SIGTERM, SIGINT, SIGABRT by name, any other as "signal <n>".
C12_CrashNamesSignal ==
    \A p \in Pos : (Emitted(p) /\ DiedBySignal(p)) =>
        LET r == sent[p][1]
            n == w[p].exit.n
        IN /\ r.Status = "worker_crashed"
           /\ r.ElapsedMs = 0
           /\ r.InfoHash = hashes[p]
           /\ Contains(r.Error, "killed by signal")
           /\ n = 7 => Contains(r.Error, "SIGBUS")
           /\ n = 11 => Contains(r.Error, "SIGSEGV")
           /\ n = 9 => Contains(r.Error, "SIGKILL")
           /\ n = 15 => Contains(r.Error, "SIGTERM")
           /\ n = 2 => Contains(r.Error, "SIGINT")
           /\ n = 6 => Contains(r.Error, "SIGABRT")
           /\ n \notin {2, 6, 7, 9, 11, 15} =>
                  Contains(r.Error, "signal " \o ToString(n))

\* a worker killed by signal 11 while it probed, emitted
C12_Witness ==
    \E p \in Pos : /\ Emitted(p) /\ DiedBySignal(p) /\ w[p].exit.n = 11
                   /\ w[p].how = "signal" /\ w[p].probes >= 1

\* the worker of task p left exit code 0 and a stdout that is no result
ExitZeroUndecodable(p) ==
    w[p].pc \notin {"idle", "spawned"} /\ w[p].exit = ExitCode(0) /\ ~Decodable(w[p].stdout)

SpawnFailed(p) == w[p].how = "nospawn"

\* C14 as stated: a worker that cannot be spawned, or whose spawn meets a
\* cancelled context, is emitted as worker_error with the underlying message.
C14_Original ==
    \A p \in Pos : (Emitted(p) /\ SpawnFailed(p)) => sent[p][1].Status = "worker_error"

\* the scan of task p's worker process panicked
ChildPanicked(p) == w[p].how = "panicked"

ChildExited(p) ==
    useIsolation /\ w[p].how \in {"returned", "panicked", "signal", "exit", "garbage", "killed"}

\* C16 as stated: once a worker process has exited, by whatever way, its
\* scratch subdirectory does not exist.
C16_Original == \A p \in Pos : ChildExited(p) => ~w[p].subdir

\* the name of a worker's scratch subdirectory under cfg.TempDir:
\* "worker-" followed by input.InfoHash[:8]
WorkerSubdir(h) == SubSeq(h, 1, 8)

\* the worker process of task p is running
WorkerRuns(p) == useIsolation /\ SliceOK(hashes[p]) /\ InFlight(p)

\* C18: no two workers that run at the same time use the same scratch
\* subdirectory, whatever the list of submitted hashes.
C18_Original ==
    \A p, q \in Pos :
        p # q /\ WorkerRuns(p) /\ WorkerRuns(q)
            => WorkerSubdir(hashes[p]) # WorkerSubdir(hashes[q])

\* C19: a scan's torrent handle is never dropped before that scan's
\* snapshot, path resolution and last probe attempt have finished, also with
\* concurrent scans on the shared in-process downloader and repeated hashes.
C19_Original == \A p \in Pos : ~w[p].lost

C17_Original == xpc = "exited" => ~rootExists

(***************************************************************************)
(* Properties of the byte budget (SpecBudget)                              *)
(***************************************************************************)
\* the scan made all its probe attempts and none was successful
ProbesExhausted ==
    po.pc = "done" /\ po.probes = po.MaxFFprobeRetries + 1 /\ ~po.ok

\* C21: when all max_retries + 1 probe attempts of a scan are non-successful
\* (every additional fetch having completed), the result has status
\* ffprobe_failed and its file name is the target file's name.
C21_ExhaustedKeepsFile ==
    ProbesExhausted =>
        po.res.Status = "ffprobe_failed" /\ po.res.File = po.FileName

\* a scan with at least one retry that exhausted them
C21_Witness ==
    /\ ProbesExhausted /\ po.MaxFFprobeRetries >= 1
    /\ Len(po.requested) = po.MaxFFprobeRetries + 1
    /\ po.res.Status = "ffprobe_failed"

\* C22 as stated: each retry requests exactly twice the byte budget of the
\* immediately preceding attempt, the first retry after the initial fetch
\* included.
C22_Original ==
    \A k \in 2..Len(po.requested) : po.requested[k] = 2 * po.requested[k - 1]

\* C22 amended: each retry after the first requests exactly twice the budget
\* of the preceding retry; the first retry requests twice the MKV threshold
\* (the initial fetch's budget), except for a .mp4 or .m4v target, where it
\* requests twice the MP4 threshold.
C22_DoublesFromBaseline ==
    /\ \A k \in 3..Len(po.requested) : po.requested[k] = 2 * po.requested[k - 1]
    /\ Len(po.requested) >= 2 =>
          po.requested[2] = 2 * (IF po.Ext \in {".mp4", ".m4v"}
                                 THEN po.MinBytesMP4 ELSE po.MinBytesMKV)

\* two retries of a .mp4 target whose thresholds differ
C22_Witness ==
    /\ Len(po.requested) >= 3 /\ po.Ext = ".mp4"
    /\ po.MinBytesMP4 # po.MinBytesMKV

\* C23: the initial fetch uses the MKV threshold; the k-th retry (k >= 1)
\* uses MP4 threshold * 2^k for a target of the MP4 family (.mp4 .m4v .mov)
\* and MKV threshold * 2^k for every other extension.
C23_Original ==
    /\ Len(po.requested) >= 1 => po.requested[1] = po.MinBytesMKV
    /\ \A k \in 1..(Len(po.requested) - 1) :
          po.requested[k + 1] =
              (IF po.Ext \in mp4Extensions THEN po.MinBytesMP4 ELSE po.MinBytesMKV)
                  * 2 ^ k

(***************************************************************************)
(* Properties of the piece plan (SpecPlan)                                 *)
(***************************************************************************)
Planned == pl.pc = "planned"

\* pieces of the target file
FilePieces == pl.plan.fileEndPiece - pl.plan.fileStartPiece

\* ceil(B / piece_len), computed without the code's rounding
CeilPieces ==
    CHOOSE n \in 0..pl.minBytes :
        n * pl.in.pieceLength >= pl.minBytes /\ (n - 1) * pl.in.pieceLength < pl.minBytes

\* C24 as stated: for every piece length, file range and budget the plan has
\* exactly ceil(B/piece_len) pieces for a target outside the MP4 family, and
\* between ceil(B/piece_len) and 2*ceil(B/piece_len) pieces inside it.
C24_Original ==
    Planned =>
        IF pl.in.ext \in mp4Extensions
        THEN /\ Cardinality(pl.plan.required) >= CeilPieces
             /\ Cardinality(pl.plan.required) <= 2 * CeilPieces
        ELSE Cardinality(pl.plan.required) = CeilPieces

\* C24 amended: with n the number of pieces of the target file, the plan has
\* exactly min(ceil(B/piece_len), n) pieces for a target outside the MP4
\* family, and exactly min(2*ceil(B/piece_len), n) pieces inside it, which
\* lies between min(ceil(B/piece_len), n) and 2*ceil(B/piece_len).
C24_PlanSizeClamped ==
    Planned =>
        IF pl.in.ext \in mp4Extensions
        THEN /\ Cardinality(pl.plan.required) = Min(2 * CeilPieces, FilePieces)
             /\ Cardinality(pl.plan.required) >= Min(CeilPieces, FilePieces)
             /\ Cardinality(pl.plan.required) <= 2 * CeilPieces
        ELSE Cardinality(pl.plan.required) = Min(CeilPieces, FilePieces)

\* a budget of more pieces than the file has, and one of fewer
C24_Witness ==
    /\ Planned /\ pl.calls >= 2
    /\ CeilPieces > FilePieces
    /\ pl.in.ext = ".mov" /\ pl.in.pieceLength >= 2 /\ pl.minBytes % pl.in.pieceLength # 0

\* C25: for every piece length, file range and budget, the head range and
\* the tail range of the plan share no piece index.
C25_HeadTailDisjoint ==
    Planned => pl.plan.head \cap pl.plan.tail = {}

\* an MP4 plan whose tail start was clamped to the head end, both non-empty
C25_Witness ==
    /\ Planned /\ pl.in.ext \in mp4Extensions
    /\ pl.plan.fileEndPiece - pl.plan.needed < pl.plan.fileStartPiece + pl.plan.needed
    /\ pl.plan.head # {} /\ pl.plan.tail # {}

\* the target's length in bytes is within the budget
BudgetCoversFile == pl.minBytes >= pl.in.length

\* C26: for an MP4-family target and a budget B >= file size, the plan is
\* exactly the set of all pieces of the file's range [begin, end), each once.
C26_FullFile ==
    Planned /\ pl.in.ext \in mp4Extensions /\ BudgetCoversFile =>
        pl.plan.required = pl.plan.fileStartPiece .. (pl.plan.fileEndPiece - 1)

\* a file that straddles a piece boundary: it has more pieces than the
\* budget's ceil(B/piece_len), and the tail brings the missing one
C26_Witness ==
    /\ Planned /\ pl.in.ext \in mp4Extensions /\ BudgetCoversFile
    /\ FilePieces > pl.plan.needed
    /\ pl.plan.tail # {} /\ pl.plan.fileStartPiece > 0

\* the plan of the initial fetch of Movie.mkv
MovieMkvPlanned == Planned /\ pl.in = MovieMkv /\ pl.calls = 1

\* C27 as stated: piece length 262144, a file spanning pieces [0, 8192) and
\* a budget of 10 MiB give an MKV target the plan 0..40, 41 pieces.
C27_Original ==
    MovieMkvPlanned =>
        pl.plan.required = 0..40 /\ Cardinality(pl.plan.required) = 41

\* C27 amended: piece length 262144, a file spanning pieces [0, 8192) and a
\* budget of 10 MiB give an MKV target the plan 0..39, 40 pieces (the head's
\* upper bound begin + ceil(B/piece_len) is not included).
C27_FortyPieces ==
    MovieMkvPlanned =>
        pl.plan.required = 0..39 /\ Cardinality(pl.plan.required) = 40

C27_Witness ==
    /\ MovieMkvPlanned
    /\ pl.plan.fileStartPiece = 0 /\ pl.plan.fileEndPiece = 8192
    /\ pl.plan.needed = 40

(***************************************************************************)
(* Properties of findLargestVideo (SpecPick)                               *)
(***************************************************************************)
Picked == fl.pc = "picked"

\* file i of the list is a video: its lowercase extension is a video extension
IsVideo(i) == ToLower(fl.files[i].ext) \in videoExts

Videos == {i \in 1..Len(fl.files) : IsVideo(i)}

\* C28: the target is the video file of greatest length and, among video
\* files of equal greatest length, the first in metadata order.
C28_Original ==
    Picked /\ fl.best # 0 =>
        /\ fl.best \in Videos
        /\ \A i \in Videos : fl.files[i].length <= fl.files[fl.best].length
        /\ \A i \in Videos : fl.files[i].length = fl.files[fl.best].length => fl.best <= i

\* C29: a torrent with at least one file whose lowercase extension is one of
\* the sixteen video extensions gets a target and never yields no_video.
C29_Original ==
    Picked /\ Videos # {} => fl.best # 0 /\ fl.res.Status # "no_video"

(***************************************************************************)
(* Properties of resolveFilePath (SpecResolve)                             *)
(***************************************************************************)
\* C30: the resolver makes at most three lookup attempts, one second of
\* pause between consecutive attempts; it returns at the first attempt that
\* finds the file, and reports file_not_found only after three failed
\* attempts.
C30_ThreeLookups ==
    /\ Len(rs.tries) <= 3
    /\ \A k \in 1..(Len(rs.tries) - 1) : ~rs.tries[k]
    /\ \A k \in 1..(Len(rs.tries) - 1) : k \in {rs.pauses[j] : j \in 1..Len(rs.pauses)}
    /\ rs.pc = "lookup" => rs.clock = Len(rs.tries)
    /\ rs.pc = "found" => /\ rs.tries[Len(rs.tries)]
                          /\ rs.filePath = rs.FileName
                          /\ rs.clock = Len(rs.tries) - 1
    /\ rs.pc = "notfound" => /\ Len(rs.tries) = 3
                             /\ \A k \in 1..3 : ~rs.tries[k]
                             /\ rs.clock = 2
                             /\ rs.res.Status = "file_not_found"

\* the file reached the disk during the second pause: found at the third attempt
C30_Witness ==
    /\ rs.pc = "found" /\ Len(rs.tries) = 3 /\ rs.clock = 2

(***************************************************************************)
(* Properties of the languages of a result (SpecLang)                      *)
(***************************************************************************)
\* the sequence seq lists the strings of S in ascending order, each once
SortedListOf(seq, S) ==
    /\ Elems(seq) = S
    /\ \A i \in 1..(Len(seq) - 1) : StringLess(seq[i], seq[i + 1])

\* a scan has returned its result
LangEmitted == lg.pc = "emitted"

\* C31: the languages of every emitted result are in ascending order, hold
\* no string twice, and hold neither the empty string nor "und", whatever
\* language tags the probe reported; a result that is not a success has no
\* languages
C31_LanguagesClean ==
    LangEmitted =>
        IF lg.status = "success"
        THEN /\ \A i \in 1..(Len(lg.languages) - 1) :
                    StringLess(lg.languages[i], lg.languages[i + 1])
             /\ \A i \in 1..Len(lg.languages) :
                    lg.languages[i] # EmptyTag /\ lg.languages[i] # UndTag
        ELSE lg.languages = NilList

\* a success with two languages although one track's tag is unknown
C31_Witness ==
    /\ LangEmitted /\ lg.status = "success"
    /\ \E i \in 1..Len(lg.raw) : lg.raw[i] \in {EmptyTag, UndTag}
    /\ \E i \in 1..Len(lg.raw) : LowerTag(lg.raw[i]) # lg.raw[i]
    /\ Len(lg.languages) >= 1

LangReturned == lg.pc = "returned"

OnlyMarkers == Items(lg.existing) # {} /\ Items(lg.existing) \subseteq ambiguous

\* C32 as stated: markers alone and a non-empty audio-derived set give the
\* audio-derived set, every other case gives the sorted union of the existing
\* list without the markers and the audio-derived set, and an empty existing
\* list gives what a nil one gives
C32_Original ==
    LangReturned =>
        /\ IF OnlyMarkers /\ detected(lg.audio) # {}
           THEN SortedListOf(lg.languages, detected(lg.audio))
           ELSE SortedListOf(lg.languages,
                             (Items(lg.existing) \ ambiguous) \cup detected(lg.audio))
        /\ (lg.existing \in {NilList, <<>>} =>
               /\ lg.languages = ComputeLanguages(NilList, lg.audio)
               /\ lg.languages = ComputeLanguages(<<>>, lg.audio))

\* C32, amended: as stated, except that markers alone and an empty
\* audio-derived set give the sorted markers
C32_MarkersKeptWhenNothingDetected ==
    LangReturned =>
        /\ IF OnlyMarkers /\ detected(lg.audio) # {}
           THEN SortedListOf(lg.languages, detected(lg.audio))
           ELSE IF OnlyMarkers
                THEN SortedListOf(lg.languages, Items(lg.existing))
                ELSE SortedListOf(lg.languages,
                                  (Items(lg.existing) \ ambiguous) \cup detected(lg.audio))
        /\ (lg.existing \in {NilList, <<>>} =>
               /\ lg.languages = ComputeLanguages(NilList, lg.audio)
               /\ lg.languages = ComputeLanguages(<<>>, lg.audio))

\* markers alone, nothing detected, and the call has returned both markers
C32_Witness ==
    /\ LangReturned /\ OnlyMarkers /\ detected(lg.audio) = {}
    /\ Len(lg.audio) >= 1
    /\ lg.languages = <<DualTag, MultiTag>>

(***************************************************************************)
(* Properties of the statistics (SpecStats)                                *)
(***************************************************************************)
\* the counters of a Stats: totals, failures by type, quality distributions,
\* bytes
Counters(s) ==
    <<s.TotalScanned, s.TotalSuccess, s.TotalFailed, s.TotalElapsedMs,
      s.FailuresByType, s.ResolutionDist, s.CodecDist, s.HDRDist,
      s.AudioCodecDist, s.LanguageDist, s.DownloadBytes>>

\* C33: whatever the starting stats and the two results, recording r1 then
\* r2 leaves the same counters as recording r2 then r1
C33_RecordCommutes ==
    sr.pc = "recording" /\ sr.done >= 2 => Counters(sr.a) = Counters(sr.b)

\* two different results, one a success and one not, recorded in both orders
\* on stats of an earlier session
C33_Witness ==
    /\ sr.pc = "recording" /\ sr.done = 2 /\ sr.start = LoadedStats
    /\ sr.calls[1].result.Status = "success" /\ sr.calls[2].result.Status = "timeout"
    /\ sr.calls[1].bytes # sr.calls[2].bytes
    /\ sr.a.TotalScanned = 4 /\ Count(sr.a.FailuresByType, "timeout") = 2

\* C38: after any calls of RecordResult on empty stats, total_scanned is
\* total_success + total_failed, and the counts of failures_by_type add up to
\* total_failed
C38_TotalsAddUp ==
    sr.pc = "recording" /\ sr.start = NewStats =>
        /\ sr.a.TotalScanned = sr.a.TotalSuccess + sr.a.TotalFailed
        /\ SumOf(sr.a.FailuresByType) = sr.a.TotalFailed

\* a success and a failure recorded on empty stats
C38_Witness ==
    /\ sr.pc = "recording" /\ sr.start = NewStats /\ sr.done = 2
    /\ sr.a.TotalSuccess = 1 /\ sr.a.TotalFailed = 1
    /\ sr.a.TotalScanned = Len(sr.calls)

(***************************************************************************)
(* Properties of errorResult (SpecError)                                   *)
(***************************************************************************)
\* the phrases in the order the spec lists them, each with its status
ClassificationOrder ==
    << <<"metadata timeout", "stall_metadata">>, <<"stall", "stall_download">>,
       <<"max timeout", "timeout">>, <<"no video file", "no_video">>,
       <<"not found on disk", "file_not_found">> >>

Matches(errMsg) == {i \in 1..Len(ClassificationOrder) : ClassificationOrder[i][1] \in errMsg}

\* C34: the status of a failed fetch is that of the first phrase, in the
\* order metadata timeout, stall, max timeout, no video file, not found on
\* disk, that the message contains, and error when it contains none
C34_FirstMatchWins ==
    er.pc = "returned" =>
        /\ er.res.Error = er.errMsg
        /\ IF Matches(er.errMsg) = {}
           THEN er.res.Status = "error"
           ELSE \E i \in Matches(er.errMsg) :
                  /\ \A j \in Matches(er.errMsg) : i <= j
                  /\ er.res.Status = ClassificationOrder[i][2]

\* a message with three of the phrases, classified by the earliest
C34_Witness ==
    /\ er.pc = "returned"
    /\ er.errMsg = {"stall", "max timeout", "metadata timeout"}
    /\ er.res.Status = "stall_metadata"

(***************************************************************************)
(* Properties of the dispatch loop after a cancellation                    *)
(***************************************************************************)
\* C35 as stated: once the parent context is cancelled no step starts the
\* task of a hash that had none, whether or not a permit is free
C35_Original ==
    [][ctxDone => \A p \in Pos : w[p].pc = "idle" => w'[p].pc = "idle"]_vars

\* the dispatch loop waits in its select for a permit that no task holds,
\* and the context is not cancelled: only a cancellation ends the wait
WaitsForNoOne ==
    /\ ~ctxDone /\ ~panicked
    /\ mpc = "loop" /\ idx <= N
    /\ ~PermitFree /\ sem = 0

\* C36 as stated, in its finite form: without a cancellation the scheduler
\* never comes to a point from which it cannot go on to emit the remaining
\* results and close the channel, whatever the concurrency and the number of
\* hashes
C36_Original == ~WaitsForNoOne

(***************************************************************************)
(* Properties of the plans of one scan (SpecBudget)                        *)
(***************************************************************************)
\* the target files a scan with the extension ext can have: every piece
\* length, offset and length
TargetFiles(ext) ==
    {in \in PlanInputs : in.ext = ext /\ in.minBytes = 1 /\ in # MovieMkv}

\* the plans of PartialDownload and of each RequestMorePieces of the scan,
\* for the target file in
PlansOf(in) ==
    [k \in 1..Len(po.requested) |-> PiecePlan(in, po.requested[k]).required]

\* C37 as stated: whatever the thresholds and the target file's pieces, each
\* plan of a scan, from the initial fetch through every retry, contains the
\* plan before it
C37_Original ==
    \A in \in TargetFiles(po.Ext) :
        \A k \in 1..(Len(po.requested) - 1) : PlansOf(in)[k] \subseteq PlansOf(in)[k + 1]

(***************************************************************************)
(* Properties of one scan on one clock (SpecTotal)                         *)
(***************************************************************************)
TotalDone == tw.pc = "done"

\* C39 as stated: a result is stall_metadata only when the metadata had not
\* arrived stall_timeout after the magnet was added; a cancellation or an
\* overall timeout that ends the metadata wait earlier gives another status
C39_Original ==
    TotalDone /\ tw.res.Status = "stall_metadata" => tw.metaEnd >= tw.StallTimeout

\* C40 as stated: in both modes the seconds a scan spends in waitForPieces,
\* the initial fetch and all retries together, are at most max_timeout and
\* one poll tick
C40_Original == tw.waited <= tw.MaxTimeout + 1

====
